---- MODULE Spec2Model ----
(***************************************************************************)
(* Model of the hybrid-nexus fusion layer:                                 *)
(*   - AutomationTriggerEngine (src/bridge/automation_triggers.py)         *)
(*   - DatabaseBridge          (src/bridge/database_bridge.py)             *)
(*   - the lead handlers of the API gateway and of the backend server      *)
(*                                                                         *)
(* Every request is a coroutine of one asyncio event loop.  A coroutine    *)
(* runs until it awaits a file operation or a sleep; the actions below are *)
(* the pieces of code between two such awaits, so that the interleavings   *)
(* of the model are the interleavings the event loop can produce.          *)
(*                                                                         *)
(* Time is counted in seconds (clock).  Only asyncio.sleep lets time pass. *)
(* datetime.now().timestamp(), which makes event ids, has microsecond      *)
(* resolution: two events never get the same reading, which eventSerial    *)
(* (a fresh number per event) stands for.                                  *)
(***************************************************************************)
EXTENDS Integers, Sequences, FiniteSets, TLC

VARIABLES
    active_sequences,   \* engine.active_sequences: the registry, in dict order
    minimax_config,     \* engine.minimax_config: "loaded" or "None"
    event_queue,        \* engine.event_queue: asyncio.Queue, oldest first
    instancesFile,      \* sequence_instances.json: instance_id -> instance
    logFile,            \* automation_log.json: list of log entries
    calls,              \* the trigger calls made so far, each a coroutine
    clock,              \* wall clock, seconds
    eventSerial,        \* readings of datetime.now().timestamp() so far
    leads,              \* db.leads: the documents, in insertion order
    leadsWrites,        \* number of write operations db.leads has executed
    oidSerial,          \* ObjectIds handed out so far
    uuidSerial,         \* uuid.uuid4() values handed out so far
    minimaxFile,        \* hybrid-fusion/data/leads_minimax.json
    leadsJson,          \* funil-automatico/data/leads.json (the other system's)
    sync_cache,         \* bridge.sync_cache: the hashes it holds
    last_sync_timestamp,\* bridge.last_sync_timestamp
    syncs,              \* the bridge calls made so far, each a coroutine
    changeFeed,         \* change events of db.leads not yet delivered
    watch,              \* the coroutine of watch_mongodb_changes
    outside             \* what the world outside the program has done so far

engineVars == <<active_sequences, minimax_config, event_queue, instancesFile,
                logFile, calls, clock, eventSerial>>

bridgeVars == <<leads, leadsWrites, oidSerial, uuidSerial, minimaxFile,
                leadsJson, sync_cache, last_sync_timestamp, syncs, changeFeed,
                watch, outside>>

vars == <<engineVars, bridgeVars>>

\* ------------------------------------------------------------------ bounds
\* Number of trigger calls of one run (they may all be in flight at once).
MaxCalls == 2

\* ------------------------------------------------------- program constants
\* automation_log.json keeps the last LogCap entries.
LogCap == 1000

\* asyncio.sleep(delay * 60): a delay is given in minutes.
SecondsPerMinute == 60

\* ------------------------------------------------------------------- steps
\* A step of a sequence.  config_ok: the step's 'config' is a mapping (a
\* step read back from active_sequences.json may carry "config": null, on
\* which config.get raises AttributeError).  delay_minutes is the key of the
\* step itself; config.delay_minutes is the key the seeded sequences set.
Step(type, ok, delay, cfgDelay, cfgMinutes) ==
    [type |-> type, config_ok |-> ok, delay_minutes |-> delay,
     config |-> [delay_minutes |-> cfgDelay, minutes |-> cfgMinutes]]

Sequence(id, trigger, steps, active) ==
    [sequence_id |-> id, trigger_event |-> trigger, steps |-> steps,
     active |-> active]

EventTypes == {"lead_capture", "status_change", "cart_abandonment",
               "purchase_completed"}

\* _initialize_default_sequences: the three seeded sequences, in the order
\* they are registered.
DefaultSequences ==
    << Sequence("welcome_7_day", "lead_capture",
           << Step("send_email", TRUE, 0, 0, 0),
              Step("send_whatsapp", TRUE, 0, 5, 0),
              Step("track_analytics", TRUE, 0, 0, 0) >>, TRUE),
       Sequence("cart_recovery", "cart_abandonment",
           << Step("send_email", TRUE, 0, 60, 0),
              Step("send_whatsapp", TRUE, 0, 120, 0),
              Step("send_email", TRUE, 0, 1440, 0) >>, TRUE),
       Sequence("onboarding", "purchase_completed",
           << Step("send_email", TRUE, 0, 0, 0),
              Step("send_email", TRUE, 0, 1440, 0) >>, TRUE) >>

\* Contents active_sequences.json may have when the engine starts (the file
\* is the one place where sequences are configured): absent, or holding
\* sequences written by an operator.
StoredSequenceFiles ==
    { << >>,
      << Sequence("vip_followup", "purchase_completed",
             << Step("send_email", TRUE, 0, 0, 0),
                Step("track_analytics", FALSE, 0, 0, 0),
                Step("send_whatsapp", TRUE, 0, 0, 0) >>, TRUE),
         Sequence("winback", "purchase_completed",
             << Step("send_email", TRUE, 0, 0, 0) >>, FALSE) >>,
      << Sequence("status_nurture", "status_change",
             << Step("update_crm", FALSE, 0, 0, 0),
                Step("sms", TRUE, 10, 0, 0),
                Step("delay", TRUE, 0, 0, 30) >>, TRUE) >> }

SeqIds(seqs) == { seqs[i].sequence_id : i \in 1..Len(seqs) }

RECURSIVE RegisterAll(_, _)
\* _load_active_sequences / _initialize_default_sequences: a dict keyed by
\* sequence_id; a later entry with a known id replaces (load) or is skipped
\* (defaults).  RegisterAll adds the sequences of 'more' that are not there.
RegisterAll(reg, more) ==
    IF more = << >> THEN reg
    ELSE IF Head(more).sequence_id \in SeqIds(reg)
         THEN RegisterAll(reg, Tail(more))
         ELSE RegisterAll(Append(reg, Head(more)), Tail(more))

\* initialize(): the registry after loading the file and seeding defaults.
InitialRegistry(stored) == RegisterAll(stored, DefaultSequences)

\* ------------------------------------------------------------------ events
\* AutomationEvent(...) as the trigger_* functions build it.  event_id is
\* f"{event_type}_{datetime.now().timestamp()}".
AutomationEvent(type, serial, email) ==
    [event_id |-> <<type, serial>>, event_type |-> type, lead_email |-> email,
     sequence_id |-> "None", status |-> "pending"]

NoEvent == AutomationEvent("", 0, "")

LeadEmails == {"ana@x.com"}

LeadStatuses == {"novo", "contatado", "qualificado", "vendido", "perdido"}

\* Values the caller may pass as new_status (the handlers accept any string).
StatusInputs == {"qualificado", "arquivado"}

\* _get_triggers_for_status: the static status -> trigger names table.
GetTriggersForStatus(status) ==
    CASE status = "novo" -> <<"welcome_sequence">>
      [] status = "contatado" -> <<"follow_up_24h">>
      [] status = "qualificado" -> <<"sales_sequence">>
      [] status = "vendido" -> <<"onboarding_sequence">>
      [] status = "perdido" -> <<"winback_sequence">>
      [] OTHER -> << >>

\* The triggers_fired list each trigger_* function returns.
TriggersFired(type, new_status) ==
    CASE type = "lead_capture" ->
           <<"welcome_sequence", "7_day_nurture", "whatsapp_welcome">>
      [] type = "status_change" -> GetTriggersForStatus(new_status)
      [] type = "cart_abandonment" ->
           <<"cart_recovery_email", "cart_recovery_whatsapp">>
      [] OTHER -> <<"thank_you_email", "onboarding_sequence", "upsell_sequence">>

\* --------------------------------------------------------------- coroutine
NoResult == [returned |-> FALSE, raised |-> FALSE, success |-> FALSE,
             triggers_fired |-> << >>]

\* The HTTP request a trigger call is made for, when there is one: its kind
\* and the document it stored.
NoRequest == [kind |-> "", doc |-> << >>]

\* The local state of one trigger_* call.
\*   pc        where the coroutine stands
\*   matching  _process_event's matching_sequences, mi the loop index
\*   insts     the sequence_instance dicts this call has created; the last
\*             one is the instance of the sequence being executed
\*   si        index of the step being executed
\*   isnap     'instances' read by _save_sequence_instance, lsnap 'logs'
\*             (locals of those functions: empty outside of them)
\*   ret       where the coroutine goes on after _save_sequence_instance
\*   exc       an exception is propagating out of _execute_sequence
\*   trace     when each step started and ended (for the timing claims)
\*   request   the gateway request that makes the call, if any
NewCall(event, new_status, matching) ==
    [pc |-> "process_event", event |-> event, new_status |-> new_status,
     matching |-> matching, mi |-> 1, si |-> 0, insts |-> << >>,
     isnap |-> << >>, lsnap |-> << >>, wake |-> 0, ret |-> "",
     exc |-> FALSE, result |-> NoResult, trace |-> << >>,
     request |-> NoRequest]

CallIds == 1..Len(calls)

CurSeq(call) == call.matching[call.mi]

CurStep(call) == CurSeq(call).steps[call.si]

CurInst(call) == call.insts[Len(call.insts)]

SetInst(call, inst) == [call EXCEPT !.insts[Len(call.insts)] = inst]

Max(a, b) == IF a >= b THEN a ELSE b

RECURSIVE SelectMatching(_, _)
SelectMatching(seqs, type) ==
    IF seqs = << >> THEN << >>
    ELSE IF Head(seqs).trigger_event = type /\ Head(seqs).active
         THEN <<Head(seqs)>> \o SelectMatching(Tail(seqs), type)
         ELSE SelectMatching(Tail(seqs), type)

RECURSIVE SelectByTrigger(_, _)
SelectByTrigger(seqs, type) ==
    IF seqs = << >> THEN << >>
    ELSE IF Head(seqs).trigger_event = type
         THEN <<Head(seqs)>> \o SelectByTrigger(Tail(seqs), type)
         ELSE SelectByTrigger(Tail(seqs), type)

\* Mutant of MatchingSequences: the active flag is not looked at.
MatchingSequencesAnyState(registry, event) ==
    SelectByTrigger(registry, event.event_type)

\* _process_event, lines 248-251: the active sequences of the registry whose
\* trigger_event is the event's type, in registry order.
MatchingSequences(registry, event) == SelectMatching(registry, event.event_type)

\* Mutant of NewInstance: the instance is created pending.
NewInstancePending(sequence, event) ==
    [sequence_id |-> sequence.sequence_id,
     instance_id |-> <<sequence.sequence_id, event.event_id>>,
     event_id |-> event.event_id, lead_email |-> event.lead_email,
     steps_completed |-> 0, steps_total |-> Len(sequence.steps),
     status |-> "pending", error |-> ""]

\* ------------------------------------------------------ _execute_sequence
\* Lines 265-275: the sequence_instance dict of a sequence and an event.
NewInstance(sequence, event) ==
    [sequence_id |-> sequence.sequence_id,
     instance_id |-> <<sequence.sequence_id, event.event_id>>,
     event_id |-> event.event_id, lead_email |-> event.lead_email,
     steps_completed |-> 0, steps_total |-> Len(sequence.steps),
     status |-> "running", error |-> ""]

\* The dict a trigger function returns once _process_event is back.
TriggerResult(call) ==
    [returned |-> TRUE, raised |-> FALSE, success |-> TRUE,
     triggers_fired |-> TriggersFired(call.event.event_type, call.new_status)]

\* _process_event, lines 253-257, with the start of _execute_sequence
\* (lines 261-278): the loop enters _execute_sequence for the next matching
\* sequence, which creates the instance and goes to save it.  When no
\* sequence is left, or an exception came out of _execute_sequence (it is
\* caught and logged at line 256), the trigger function returns its result.
ProcessEvent(call) ==
    IF ~call.exc /\ call.mi <= Len(call.matching)
    THEN [call EXCEPT !.insts = Append(@, NewInstance(CurSeq(call), call.event)),
                      !.si = 1, !.pc = "save_read", !.ret = "steps"]
    ELSE [call EXCEPT !.pc = "done", !.exc = FALSE,
                      !.result = TriggerResult(call)]

\* Whether the handler of a step raises.  A handler raises on config.get
\* when the config is no mapping; _send_email, _send_whatsapp and
\* _update_crm return before touching the config when minimax_config is
\* None; an unrecognized type only logs a warning.
StepRaises(step, cfg) ==
    CASE step.type \in {"send_email", "send_whatsapp", "update_crm"} ->
           cfg = "loaded" /\ ~step.config_ok
      [] step.type \in {"track_analytics", "delay"} -> ~step.config_ok
      [] OTHER -> FALSE

\* The action name the handler of a step logs, "" when it logs nothing.
StepLogAction(step, cfg) ==
    CASE step.type = "send_email" ->
           IF cfg = "loaded" THEN "email_sent" ELSE ""
      [] step.type = "send_whatsapp" ->
           IF cfg = "loaded" THEN "whatsapp_sent" ELSE ""
      [] step.type = "update_crm" ->
           IF cfg = "loaded" THEN "crm_updated" ELSE ""
      [] step.type = "track_analytics" -> "analytics_tracked"
      [] step.type = "delay" -> "delay_executed"
      [] OTHER -> ""

\* Mutant of ExecuteSequenceExcept: the failure is recorded but the loop
\* goes on with the following steps.
ExecuteSequenceExceptGoOn(call, message) ==
    [SetInst(call, [CurInst(call) EXCEPT !.status = "error",
                                         !.error = message])
        EXCEPT !.pc = "step_done"]

\* Mutant of ExecuteSequenceExcept: the exception is raised again after the
\* instance is saved.
ExecuteSequenceExceptReraise(call, message) ==
    [SetInst(call, [CurInst(call) EXCEPT !.status = "error",
                                         !.error = message])
        EXCEPT !.pc = "save_read", !.ret = "return", !.exc = TRUE]

\* Lines 298-305: the except clause of _execute_sequence.  The instance is
\* marked error and saved; the exception is not raised again.
ExecuteSequenceExcept(call, message) ==
    [SetInst(call, [CurInst(call) EXCEPT !.status = "error",
                                         !.error = message])
        EXCEPT !.pc = "save_read", !.ret = "return"]

TraceEntry(call, ev, at) ==
    [sequence_id |-> CurSeq(call).sequence_id, step |-> call.si, ev |-> ev,
     at |-> at]

\* _execute_step on a step whose handler does not raise: where the
\* coroutine goes next.  _execute_delay sleeps before it logs.
RunStep(call, step, now, cfg) ==
    IF step.type = "delay" /\ step.config.minutes > 0
    THEN [call EXCEPT !.pc = "delay_sleep",
                      !.wake = now + step.config.minutes * SecondsPerMinute]
    ELSE IF StepLogAction(step, cfg) # ""
         THEN [call EXCEPT !.pc = "log_read"]
         ELSE [call EXCEPT !.pc = "step_done"]

\* Lines 291-294: every step is done; mark the instance completed, save it.
CompleteSequence(call) ==
    [SetInst(call, [CurInst(call) EXCEPT !.status = "completed"])
        EXCEPT !.pc = "save_read", !.ret = "return"]

\* Lines 281-282 and 291: the loop over sequence.steps takes the next step
\* and calls _execute_step, or is over.
ExecuteSteps(call, now, cfg) ==
    IF call.si > Len(CurSeq(call).steps)
    THEN CompleteSequence(call)
    ELSE LET started == [call EXCEPT
                            !.trace = Append(@, TraceEntry(call, "start", now))]
         IN IF StepRaises(CurStep(call), cfg)
            THEN ExecuteSequenceExcept(started,
                     "'NoneType' object has no attribute 'get'")
            ELSE RunStep(started, CurStep(call), now, cfg)

\* Mutant of StepDone: a pause is left to a later run and the trigger
\* returns at once.
StepDoneDeferred(call, now) ==
    LET counted == SetInst(call,
                       [CurInst(call) EXCEPT !.steps_completed = @ + 1])
    IN IF CurStep(call).delay_minutes > 0
       THEN [counted EXCEPT !.pc = "done", !.result = TriggerResult(call)]
       ELSE [counted EXCEPT !.pc = "steps", !.si = @ + 1]

\* Mutant of StepDone: a step of an unrecognized type is not counted.
StepDoneKnownOnly(call, now) ==
    LET ended == [call EXCEPT
                     !.trace = Append(@, TraceEntry(call, "end", now))]
        known == CurStep(call).type \in {"send_email", "send_whatsapp",
                     "track_analytics", "update_crm", "delay"}
        counted == IF known
                   THEN SetInst(ended, [CurInst(call) EXCEPT
                                           !.steps_completed = @ + 1])
                   ELSE ended
        delay == CurStep(call).delay_minutes
    IN IF delay > 0
       THEN [counted EXCEPT !.pc = "sleep",
                            !.wake = now + delay * SecondsPerMinute]
       ELSE [counted EXCEPT !.pc = "steps", !.si = @ + 1]

\* Lines 283-289: the step is back; count it and start the pause the step
\* asks for with its own delay_minutes key.
StepDone(call, now) ==
    LET counted == SetInst([call EXCEPT
                       !.trace = Append(@, TraceEntry(call, "end", now))],
                       [CurInst(call) EXCEPT !.steps_completed = @ + 1])
        delay == CurStep(call).delay_minutes
    IN IF delay > 0
       THEN [counted EXCEPT !.pc = "sleep",
                            !.wake = now + delay * SecondsPerMinute]
       ELSE [counted EXCEPT !.pc = "steps", !.si = @ + 1]

RECURSIVE Run(_, _, _)
\* The coroutine runs on, without giving up the event loop, until it awaits
\* a file operation or a sleep, or returns.
Run(call, now, cfg) ==
    CASE call.pc = "process_event" -> Run(ProcessEvent(call), now, cfg)
      [] call.pc = "steps" -> Run(ExecuteSteps(call, now, cfg), now, cfg)
      [] call.pc = "step_done" -> Run(StepDone(call, now), now, cfg)
      [] OTHER -> call

\* ------------------------------------------------------------ trigger_*
\* Mutant of StartTrigger: the event is taken off the queue when it is
\* processed.
StartTriggerConsumes(type, email, new_status) ==
    /\ Len(calls) < MaxCalls
    /\ LET event == AutomationEvent(type, eventSerial + 1, email)
       IN /\ event_queue' = << >>
          /\ calls' = Append(calls,
                 Run(NewCall(event, new_status,
                             MatchingSequences(active_sequences, event)),
                     clock, minimax_config))
    /\ eventSerial' = eventSerial + 1
    /\ UNCHANGED <<bridgeVars, active_sequences, minimax_config, instancesFile, logFile,
                   clock>>

\* Mutant of StartTrigger: a status change selects sequences only for a
\* status the status table knows.
StartTriggerByStatus(type, email, new_status) ==
    /\ Len(calls) < MaxCalls
    /\ LET event == AutomationEvent(type, eventSerial + 1, email)
           matching ==
               IF type = "status_change"
                  /\ GetTriggersForStatus(new_status) = << >>
               THEN << >>
               ELSE MatchingSequences(active_sequences, event)
       IN /\ event_queue' = Append(event_queue, event)
          /\ calls' = Append(calls,
                 Run(NewCall(event, new_status, matching),
                     clock, minimax_config))
    /\ eventSerial' = eventSerial + 1
    /\ UNCHANGED <<bridgeVars, active_sequences, minimax_config, instancesFile, logFile,
                   clock>>

\* The common body of the four trigger functions: build the event, put it
\* on the queue and enter _process_event (which first computes the matching
\* sequences).
StartTrigger(type, email, new_status) ==
    /\ Len(calls) < MaxCalls
    /\ LET event == AutomationEvent(type, eventSerial + 1, email)
       IN /\ event_queue' = Append(event_queue, event)
          /\ calls' = Append(calls,
                 Run(NewCall(event, new_status,
                             MatchingSequences(active_sequences, event)),
                     clock, minimax_config))
    /\ eventSerial' = eventSerial + 1
    /\ UNCHANGED <<bridgeVars, active_sequences, minimax_config, instancesFile, logFile,
                   clock>>

TriggerLeadCapture(email) == StartTrigger("lead_capture", email, "")

TriggerStatusChange(email, new_status) ==
    StartTrigger("status_change", email, new_status)

TriggerCartAbandonment(email) == StartTrigger("cart_abandonment", email, "")

TriggerPurchaseCompleted(email) ==
    StartTrigger("purchase_completed", email, "")

\* ------------------------------------------------------------- file I/O
\* _save_sequence_instance, lines 662-667: read the file (an absent file
\* reads as the empty map).
SaveRead(c) ==
    /\ calls[c].pc = "save_read"
    /\ calls' = [calls EXCEPT ![c] =
           [@ EXCEPT !.isnap = instancesFile, !.pc = "save_write"]]
    /\ UNCHANGED <<bridgeVars, active_sequences, minimax_config, event_queue,
                   instancesFile, logFile, clock, eventSerial>>

\* Mutant of PutInstance: the file is written with this instance alone.
PutInstanceAlone(instances, inst) ==
    [k \in {inst.instance_id} |-> inst]

\* instances[instance['instance_id']] = instance
PutInstance(instances, inst) ==
    [k \in DOMAIN instances \cup {inst.instance_id} |->
        IF k = inst.instance_id THEN inst ELSE instances[k]]

\* What follows a save: the steps after the first save; after the save of a
\* finished or failed instance _execute_sequence returns to the loop of
\* _process_event.
AfterSave(call) ==
    IF call.ret = "steps" THEN [call EXCEPT !.pc = "steps"]
    ELSE [call EXCEPT !.pc = "process_event", !.mi = @ + 1]

\* _save_sequence_instance, lines 670-674: write the map read before, with
\* this instance put in, over the file.
SaveWrite(c) ==
    /\ calls[c].pc = "save_write"
    /\ instancesFile' = PutInstance(calls[c].isnap, CurInst(calls[c]))
    /\ calls' = [calls EXCEPT ![c] =
           Run(AfterSave([calls[c] EXCEPT !.isnap = << >>]), clock,
               minimax_config)]
    /\ UNCHANGED <<bridgeVars, active_sequences, minimax_config, event_queue, logFile,
                   clock, eventSerial>>

\* _execute_delay, line 460: asyncio.sleep(total_delay) is over.
DelayWake(c) ==
    /\ calls[c].pc = "delay_sleep"
    /\ clock' = Max(clock, calls[c].wake)
    /\ calls' = [calls EXCEPT ![c] = [@ EXCEPT !.pc = "log_read", !.wake = 0]]
    /\ UNCHANGED <<bridgeVars, active_sequences, minimax_config, event_queue,
                   instancesFile, logFile, eventSerial>>

\* _log_automation_action, lines 692-699: read the log file.
LogRead(c) ==
    /\ calls[c].pc = "log_read"
    /\ calls' = [calls EXCEPT ![c] =
           [@ EXCEPT !.lsnap = logFile, !.pc = "log_write"]]
    /\ UNCHANGED <<bridgeVars, active_sequences, minimax_config, event_queue,
                   instancesFile, logFile, clock, eventSerial>>

LogEntry(call, action, now) ==
    [timestamp |-> now, action |-> action,
     event_id |-> call.event.event_id, lead_email |-> call.event.lead_email,
     sequence_id |-> call.event.sequence_id]

\* Lines 701-705: append the entry and keep the last LogCap entries.
AppendLog(logs, entry) ==
    LET all == Append(logs, entry)
    IN IF Len(all) > LogCap
       THEN SubSeq(all, Len(all) - LogCap + 1, Len(all))
       ELSE all

\* _log_automation_action, lines 707-708: write the log file; the handler
\* and _execute_step return.
LogWrite(c) ==
    /\ calls[c].pc = "log_write"
    /\ logFile' = AppendLog(calls[c].lsnap,
           LogEntry(calls[c],
                    StepLogAction(CurStep(calls[c]), minimax_config), clock))
    /\ calls' = [calls EXCEPT ![c] =
           Run([calls[c] EXCEPT !.pc = "step_done", !.lsnap = << >>], clock,
               minimax_config)]
    /\ UNCHANGED <<bridgeVars, active_sequences, minimax_config, event_queue,
                   instancesFile, clock, eventSerial>>

\* Line 289: asyncio.sleep(delay * 60) is over; on to the next step.
StepWake(c) ==
    /\ calls[c].pc = "sleep"
    /\ clock' = Max(clock, calls[c].wake)
    /\ calls' = [calls EXCEPT ![c] =
           Run([calls[c] EXCEPT !.pc = "steps", !.si = @ + 1, !.wake = 0],
               Max(clock, calls[c].wake), minimax_config)]
    /\ UNCHANGED <<bridgeVars, active_sequences, minimax_config, event_queue,
                   instancesFile, logFile, eventSerial>>

\* ------------------------------------------------- get_automation_status
\* Lines 713-745: what get_automation_status returns (sequence_instances.json
\* is read first; the queue size is taken right before the return).
GetAutomationStatus ==
    LET Active(seq) == seq.active
    IN [success |-> TRUE,
        active_sequences |-> Len(SelectSeq(active_sequences, Active)),
        total_sequences |-> Len(active_sequences),
        running_instances |->
            Cardinality({ k \in DOMAIN instancesFile :
                            instancesFile[k].status = "running" }),
        completed_instances |->
            Cardinality({ k \in DOMAIN instancesFile :
                            instancesFile[k].status = "completed" }),
        event_queue_size |-> Len(event_queue),
        minimax_config_loaded |-> minimax_config # "None"]

\* =========================================================== DatabaseBridge
\* ------------------------------------------------------------ bridge bounds
\* Number of bridge calls (sync passes) of one run.
MaxSyncs == 2

\* Number of leads created through the backend server in one run.
MaxCreates == 1

\* Number of times the other system rewrites leads.json in one run.
MaxFileEdits == 1

\* Number of documents removed from db.leads from outside in one run.
MaxDeletes == 1

\* ------------------------------------------------------ bridge constants
\* find({}).to_list(length=1000): the most documents one read returns.
ToListLength == 1000

\* -------------------------------------------------------------- lead values
\* A timestamp value is a pair: its Python type and the instant it denotes.
\*   "datetime"  a datetime object
\*   "iso"       a str in ISO-8601 format
\*   "text"      a str that is no ISO-8601 date
\*   "none"      None
Dt(n) == <<"datetime", n>>

Iso(n) == <<"iso", n>>

NoneValue == <<"none", 0>>

NotADate == <<"text", 0>>

\* datetime.isoformat()
IsoFormat(t) == Iso(t[2])

\* datetime.fromisoformat(s.replace('Z', '+00:00')); raises ValueError on a
\* str that is no ISO-8601 date.
FromIsoFormatRaises(t) == t[1] = "text"

FromIsoFormat(t) == Dt(t[2])

\* An ObjectId, and str() of one.  '' is StrOfOid of no ObjectId.
Oid(n) == <<"ObjectId", n>>

StrOfOid(oid) == <<"str", oid[2]>>

NoOid == Oid(0)

\* str(uuid.uuid4()): the n-th value drawn.
Uuid(n) == <<"uuid", n>>

\* dict.get(key, default)
Get(d, key, default) == IF key \in DOMAIN d THEN d[key] ELSE default

\* What a $set of the fields of upd makes of document d.
SetFields(d, upd) ==
    [k \in DOMAIN d \cup DOMAIN upd |->
        IF k \in DOMAIN upd THEN upd[k] ELSE d[k]]

\* The people who fill in the lead form: one e-mail address used with two
\* phone numbers (a phone number is a string of digits).
Contacts ==
    { [nome |-> "Ana", email |-> "ana@x.com", telefone |-> 901],
      [nome |-> "Ana", email |-> "ana@x.com", telefone |-> 902] }

\* backend/server.py create_lead: Lead(**lead_data).model_dump(), with the
\* timestamp turned into its isoformat string.  "None" is Python's None, the
\* default of Lead.notas.
BackendLeadDoc(contact, id, now) ==
    [id |-> id, nome |-> contact.nome, email |-> contact.email,
     telefone |-> contact.telefone, status |-> "novo",
     fonte |-> "landing_page", timestamp |-> IsoFormat(Dt(now)),
     notas |-> "None"]

\* Mutant of GatewayLeadDoc: the lead is stored as already contacted.
GatewayLeadDocContacted(contact, id, now) ==
    [id |-> id, nome |-> contact.nome, email |-> contact.email,
     telefone |-> contact.telefone, status |-> "contatado",
     fonte |-> "fused_landing", timestamp |-> Dt(now),
     sync_source |-> "fused_api"]

\* fused_api_gateway.py create_lead, lines 241-250: the mongo_lead dict
\* (lead_data.source or 'fused_landing').
GatewayLeadDoc(contact, id, now) ==
    [id |-> id, nome |-> contact.nome, email |-> contact.email,
     telefone |-> contact.telefone, status |-> "novo",
     fonte |-> "fused_landing", timestamp |-> Dt(now),
     sync_source |-> "fused_api"]

\* A document that reached db.leads by an import: no id, no timestamp.
ImportedLeadDoc ==
    [_id |-> Oid(1), nome |-> "Bia", email |-> "bia@x.com", telefone |-> 903,
     status |-> "contatado"]

\* _convert_mongo_lead_to_minimax: uuid is the value uuid4() gives when the
\* document has no id, now the reading of datetime.now().
ConvertMongoLeadToMinimax(mongo_lead, uuid, now) ==
    LET timestamp == Get(mongo_lead, "timestamp", NoneValue)
        timestamp_str == IF timestamp[1] = "datetime" THEN IsoFormat(timestamp)
                         ELSE IF timestamp = NoneValue THEN IsoFormat(Dt(now))
                         ELSE timestamp
    IN [lead_id |-> Get(mongo_lead, "id", uuid),
        timestamp |-> timestamp_str,
        nome |-> Get(mongo_lead, "nome", ""),
        email |-> Get(mongo_lead, "email", ""),
        telefone |-> Get(mongo_lead, "telefone", 0),
        status |-> Get(mongo_lead, "status", "novo"),
        source |-> Get(mongo_lead, "fonte", "mongodb"),
        notes |-> Get(mongo_lead, "notas", ""),
        created_at |-> timestamp_str,
        updated_at |-> IsoFormat(Dt(now)),
        sync_source |-> "mongodb_hybrid_nexus",
        original_id |-> StrOfOid(Get(mongo_lead, "_id", NoOid))]

\* _convert_minimax_lead_to_mongo raises when the timestamp is a str that
\* fromisoformat cannot parse.
ConvertMinimaxLeadToMongoRaises(minimax_lead) ==
    FromIsoFormatRaises(Get(minimax_lead, "timestamp", NoneValue))

\* Mutant of ConvertMinimaxLeadToMongo: the notes are not carried over.
ConvertMinimaxLeadToMongoNoNotes(minimax_lead, uuid) ==
    [id |-> Get(minimax_lead, "lead_id", uuid),
     nome |-> Get(minimax_lead, "nome", ""),
     email |-> Get(minimax_lead, "email", ""),
     telefone |-> Get(minimax_lead, "telefone", 0),
     status |-> Get(minimax_lead, "status", "novo"),
     fonte |-> Get(minimax_lead, "source", "minimax"),
     notas |-> "",
     timestamp |-> NoneValue,
     sync_source |-> Get(minimax_lead, "sync_source", "minimax"),
     original_id |-> Get(minimax_lead, "original_id", StrOfOid(NoOid))]

\* _convert_minimax_lead_to_mongo
ConvertMinimaxLeadToMongo(minimax_lead, uuid) ==
    LET timestamp == Get(minimax_lead, "timestamp", NoneValue)
    IN [id |-> Get(minimax_lead, "lead_id", uuid),
        nome |-> Get(minimax_lead, "nome", ""),
        email |-> Get(minimax_lead, "email", ""),
        telefone |-> Get(minimax_lead, "telefone", 0),
        status |-> Get(minimax_lead, "status", "novo"),
        fonte |-> Get(minimax_lead, "source", "minimax"),
        notas |-> Get(minimax_lead, "notes", ""),
        timestamp |-> IF timestamp[1] = "iso" THEN FromIsoFormat(timestamp)
                      ELSE timestamp,
        sync_source |-> Get(minimax_lead, "sync_source", "minimax"),
        original_id |-> Get(minimax_lead, "original_id", StrOfOid(NoOid))]

\* _calculate_lead_hash: md5 of email, telefone and timestamp.
CalculateLeadHash(lead) ==
    <<Get(lead, "email", ""), Get(lead, "telefone", 0),
      Get(lead, "timestamp", NoneValue)>>

\* A record of leads.json as the other system writes it.
FormLead(lead_id, telefone, timestamp) ==
    [lead_id |-> lead_id, nome |-> "Ana", email |-> "ana@x.com",
     telefone |-> telefone, status |-> "contatado", source |-> "minimax_form",
     notes |-> "ligar", timestamp |-> timestamp]

NoFile == [exists |-> FALSE, leads |-> << >>]

\* Contents of leads.json.  TwoPhones: two leads with one e-mail address
\* and two phone numbers.  PhoneCorrected: the first of them alone, with its
\* phone number changed.  BadDate: a lead whose timestamp is no date, before
\* a good one.
TwoPhones ==
    [exists |-> TRUE,
     leads |-> << FormLead(<<"form", 1>>, 901, Iso(1)),
                  FormLead(<<"form", 2>>, 902, Iso(2)) >>]

PhoneCorrected ==
    [exists |-> TRUE, leads |-> << FormLead(<<"form", 1>>, 902, Iso(1)) >>]

BadDate ==
    [exists |-> TRUE,
     leads |-> << FormLead(<<"form", 3>>, 901, NotADate),
                  FormLead(<<"form", 2>>, 902, Iso(2)) >>]

LeadsJsonFiles == {NoFile, TwoPhones, PhoneCorrected, BadDate}

\* How the other system rewrites the file: it writes its first leads, or
\* corrects the phone number of one.
LeadsJsonEdits == {<<NoFile, TwoPhones>>, <<TwoPhones, PhoneCorrected>>}

\* A record leads_minimax.json may hold from an earlier run, whose lead is
\* no longer in db.leads.
StaleMinimaxLead ==
    ConvertMongoLeadToMinimax(
        [_id |-> Oid(99), id |-> <<"form", 9>>, nome |-> "Caio",
         email |-> "caio@x.com", telefone |-> 909, status |-> "perdido",
         fonte |-> "landing_page", timestamp |-> Dt(0)], Uuid(0), 0)

\* ----------------------------------------------------------------- db.leads
\* The positions of the documents with this email and this telefone.
WithPair(docs, email, telefone) ==
    { i \in 1..Len(docs) : docs[i].email = email /\ docs[i].telefone = telefone }

\* Mutant of FindOne: the lookup is by email alone.
FindOneByEmail(docs, email, telefone) ==
    LET found == { i \in 1..Len(docs) : docs[i].email = email }
    IN IF found = {} THEN NoOid
       ELSE docs[CHOOSE i \in found : \A j \in found : i <= j]._id

\* find_one({'email': ..., 'telefone': ...}): the _id of the first document
\* that matches, NoOid when none does.
FindOne(docs, email, telefone) ==
    LET found == WithPair(docs, email, telefone)
    IN IF found = {} THEN NoOid
       ELSE docs[CHOOSE i \in found : \A j \in found : i <= j]._id

\* The change events the feed delivers, while a change stream is open.
Emit(feed, events) ==
    IF watch.status \in {"off", "ended"} THEN feed ELSE feed \o events

\* insert_one(doc): the store gives the document its _id.
WithId(doc, oid) ==
    [k \in DOMAIN doc \cup {"_id"} |-> IF k = "_id" THEN oid ELSE doc[k]]

InsertEvent(doc) ==
    [operationType |-> "insert", documentKey |-> doc._id, fullDocument |-> doc]

\* An update event carries no fullDocument (the stream is opened by watch()
\* with no full_document option).
UpdateEvent(oid) == [operationType |-> "update", documentKey |-> oid]

DeleteEvent(oid) == [operationType |-> "delete", documentKey |-> oid]

\* db.leads.insert_one(doc)
InsertOne(doc) ==
    LET stored == WithId(doc, Oid(oidSerial + 1))
    IN /\ leads' = Append(leads, stored)
       /\ oidSerial' = oidSerial + 1
       /\ leadsWrites' = leadsWrites + 1
       /\ changeFeed' = Emit(changeFeed, <<InsertEvent(stored)>>)

\* db.leads.update_one({'_id': oid}, {'$set': fields}); modified_count is 1
\* when the document is there and the $set changes it.
ModifiedCount(oid, fields) ==
    Cardinality({ i \in 1..Len(leads) :
        leads[i]._id = oid /\ SetFields(leads[i], fields) # leads[i] })

UpdateOne(oid, fields) ==
    /\ leads' = [i \in 1..Len(leads) |->
                    IF leads[i]._id = oid THEN SetFields(leads[i], fields)
                    ELSE leads[i]]
    /\ leadsWrites' = leadsWrites + ModifiedCount(oid, fields)
    /\ changeFeed' = IF ModifiedCount(oid, fields) > 0
                     THEN Emit(changeFeed, <<UpdateEvent(oid)>>)
                     ELSE changeFeed
    /\ UNCHANGED oidSerial

\* find({}).to_list(length=ToListLength)
ToList(docs) ==
    IF Len(docs) <= ToListLength THEN docs ELSE SubSeq(docs, 1, ToListLength)

\* ------------------------------------------------------------ bridge calls
NoStats == [total_leads |-> 0, new_leads |-> 0, updated_leads |-> 0,
            inserted |-> 0, updated |-> 0, errors |-> 0]

NoSyncResult == [returned |-> FALSE, success |-> FALSE, stats |-> NoStats,
                 message |-> ""]

\* The local state of one call of a sync function.
\*   kind          "mongodb_to_minimax", "minimax_to_mongodb", "bidirectional"
\*   pc            where the coroutine stands
\*   minimax_leads the converted list (primary -> file pass), the list read
\*                 from leads.json (file -> primary pass)
\*   ri            index of the record of leads.json being synced
\*   existing      _id of what find_one returned for it, mongo_lead its
\*                 conversion
\*   readWrites, lookupWrites   the value of leadsWrites when the pass read
\*                 db.leads, and when it looked the current record up
\*   forward, reverse   the results of the two passes
\*   result        what the call returned
NoMongoLead == [id |-> Uuid(0)]

NewSync(kind) ==
    [kind |-> kind,
     pc |-> IF kind = "minimax_to_mongodb" THEN "reverse_open"
            ELSE "forward_read",
     minimax_leads |-> << >>, sync_stats |-> NoStats,
     ri |-> 0, existing |-> NoOid, mongo_lead |-> NoMongoLead,
     readWrites |-> 0, lookupWrites |-> 0,
     forward |-> NoSyncResult, reverse |-> NoSyncResult,
     result |-> NoSyncResult]

SyncIds == 1..Len(syncs)

SyncKinds == {"mongodb_to_minimax", "minimax_to_mongodb", "bidirectional"}

\* ---------------------------------------------- sync_leads_mongodb_to_minimax
\* Lines 83-110: the read of db.leads and the loop that converts what was
\* read, counts it and puts it in the cache.  No conversion raises: every
\* field is read with .get and str() takes any value.
ConvertAll(docs, serial, now) ==
    [i \in 1..Len(docs) |->
        ConvertMongoLeadToMinimax(docs[i], Uuid(serial + i), now)]

Hashes(minimax_leads) ==
    { CalculateLeadHash(minimax_leads[i]) : i \in 1..Len(minimax_leads) }

UuidsDrawn(docs) ==
    IF \E i \in 1..Len(docs) : "id" \notin DOMAIN docs[i] THEN Len(docs) ELSE 0

ForwardStats(minimax_leads, cache) ==
    LET new == Cardinality(Hashes(minimax_leads) \ cache)
    IN [NoStats EXCEPT !.total_leads = Len(minimax_leads),
                       !.new_leads = new,
                       !.updated_leads = Len(minimax_leads) - new]

ForwardRead(s) ==
    LET minimax_leads == ConvertAll(ToList(leads), uuidSerial, clock)
    IN /\ syncs[s].pc = "forward_read"
       /\ syncs' = [syncs EXCEPT ![s] =
              [@ EXCEPT !.pc = "forward_save",
                        !.minimax_leads = minimax_leads,
                        !.sync_stats = ForwardStats(minimax_leads, sync_cache),
                        !.readWrites = leadsWrites]]
       /\ sync_cache' = sync_cache \cup Hashes(minimax_leads)
       /\ uuidSerial' = uuidSerial + UuidsDrawn(ToList(leads))
       /\ UNCHANGED <<engineVars, leads, leadsWrites, oidSerial, minimaxFile,
                      leadsJson, last_sync_timestamp, changeFeed, watch,
                      outside>>

\* Mutant of AfterForward: bidirectional_sync gives up when its first pass
\* has failed.
AfterForwardStops(sync, result) ==
    IF sync.kind = "bidirectional" /\ result.success
    THEN [sync EXCEPT !.pc = "reverse_open", !.forward = result,
                      !.minimax_leads = << >>, !.sync_stats = NoStats]
    ELSE [sync EXCEPT !.pc = "done", !.forward = result, !.result = result,
                      !.minimax_leads = << >>, !.sync_stats = NoStats]

\* Where the call goes when its primary -> file pass has returned 'result':
\* bidirectional_sync goes on with the other pass whatever the result is.
AfterForward(sync, result) ==
    IF sync.kind = "bidirectional"
    THEN [sync EXCEPT !.pc = "reverse_open", !.forward = result,
                      !.minimax_leads = << >>, !.sync_stats = NoStats]
    ELSE [sync EXCEPT !.pc = "done", !.forward = result, !.result = result,
                      !.minimax_leads = << >>, !.sync_stats = NoStats]

\* Lines 113-122 with _save_minimax_leads: the converted list is written
\* over leads_minimax.json and the pass returns success.
ForwardSave(s) ==
    /\ syncs[s].pc = "forward_save"
    /\ minimaxFile' = syncs[s].minimax_leads
    /\ last_sync_timestamp' = Dt(clock)
    /\ syncs' = [syncs EXCEPT ![s] =
           AfterForward(@, [returned |-> TRUE, success |-> TRUE,
                            stats |-> @.sync_stats, message |-> ""])]
    /\ UNCHANGED <<engineVars, leads, leadsWrites, oidSerial, uuidSerial,
                   leadsJson, sync_cache, changeFeed, watch, outside>>

\* _save_minimax_leads raises (lines 374-376: a full disk, a file that
\* cannot be opened) and the pass returns success False (lines 124-129).
\* The file is as it was when open() failed, and cut short (nothing a
\* reader can parse) when the write failed after open() had emptied it.
ForwardSaveFails(s, opened) ==
    /\ syncs[s].pc = "forward_save"
    /\ minimaxFile' = IF opened THEN << >> ELSE minimaxFile
    /\ syncs' = [syncs EXCEPT ![s] =
           AfterForward(@, [returned |-> TRUE, success |-> FALSE,
                            stats |-> NoStats, message |-> "OSError"])]
    /\ UNCHANGED <<engineVars, leads, leadsWrites, oidSerial, uuidSerial,
                   leadsJson, sync_cache, last_sync_timestamp, changeFeed,
                   watch, outside>>

\* ------------------------------------------------------- _save_minimax_leads
\* The steps of _save_minimax_leads, for the runs in which two callers are
\* inside it at once.  What follows the JSON document in a file whose last
\* writer wrote a shorter text than the one that was there: json.loads of
\* such a file raises "Extra data".
ExtraData == [extra_data |-> TRUE]

\* The records of a file, without what trails them.
Records(file) ==
    SelectSeq(file, LAMBDA r : r # ExtraData)

\* Line 369: aiofiles.open(file_path, 'w') empties the file; the writer
\* stands at offset 0.
SaveMinimaxLeadsOpen(s) ==
    /\ syncs[s].pc = "forward_save"
    /\ minimaxFile' = << >>
    /\ syncs' = [syncs EXCEPT ![s] = [@ EXCEPT !.pc = "forward_write"]]
    /\ UNCHANGED <<engineVars, leads, leadsWrites, oidSerial, uuidSerial,
                   leadsJson, sync_cache, last_sync_timestamp, changeFeed,
                   watch, outside>>

\* Lines 370 and 113-122: the text is written from offset 0 when the file
\* is closed, and the pass returns success.  A text another writer put in
\* the file since this one opened it is written over from its start; the
\* bytes beyond the end of the new text stay.  'shorter': the new text is
\* shorter than the one in the file, which takes no more than a clock
\* reading on a whole second (isoformat() then leaves the microseconds
\* out of updated_at, line 319) among records as many as, or fewer than,
\* the file holds.
SaveMinimaxLeadsWrite(s, shorter) ==
    /\ syncs[s].pc = "forward_write"
    /\ shorter => /\ minimaxFile # << >>
                  /\ Len(syncs[s].minimax_leads) <= Len(Records(minimaxFile))
    /\ minimaxFile' = IF shorter
                      THEN Append(syncs[s].minimax_leads, ExtraData)
                      ELSE syncs[s].minimax_leads
    /\ last_sync_timestamp' = Dt(clock)
    /\ syncs' = [syncs EXCEPT ![s] =
           AfterForward(@, [returned |-> TRUE, success |-> TRUE,
                            stats |-> @.sync_stats, message |-> ""])]
    /\ UNCHANGED <<engineVars, leads, leadsWrites, oidSerial, uuidSerial,
                   leadsJson, sync_cache, changeFeed, watch, outside>>

\* ---------------------------------------------- sync_leads_minimax_to_mongodb
\* Lines 186-193 and 215-224: the file -> primary pass returns 'result';
\* bidirectional_sync then returns success True with both results in it.
AfterReverse(sync, result) ==
    [sync EXCEPT !.pc = "done", !.reverse = result,
                 !.result = IF sync.kind = "bidirectional"
                            THEN [returned |-> TRUE, success |-> TRUE,
                                  stats |-> NoStats, message |-> ""]
                            ELSE result,
                 !.minimax_leads = << >>, !.sync_stats = NoStats, !.ri = 0,
                 !.existing = NoOid, !.mongo_lead = NoMongoLead,
                 !.lookupWrites = 0]

\* The loop of line 157 takes the next record, or is over and the pass
\* returns its counts.
ReverseLoop(sync) ==
    IF sync.ri <= Len(sync.minimax_leads)
    THEN [sync EXCEPT !.pc = "reverse_find"]
    ELSE AfterReverse(sync, [returned |-> TRUE, success |-> TRUE,
                             stats |-> sync.sync_stats, message |-> ""])

\* Whether this step of the call ended a file -> primary pass that went
\* through its loop (line 186 sets last_sync_timestamp).
SetsLastSync(before, after) ==
    /\ before.pc # "done" /\ after.pc = "done"
    /\ after.reverse.message = ""

\* Mutant of ReverseOpen: the pass reads leads_minimax.json, the file the
\* other pass writes.
ReverseOpenReadsWritten(s) ==
    LET opened == [syncs[s] EXCEPT
                      !.minimax_leads = Records(minimaxFile),
                      !.sync_stats = [NoStats EXCEPT
                          !.total_leads = Len(Records(minimaxFile))],
                      !.ri = 1]
        after == ReverseLoop(opened)
    IN /\ syncs[s].pc = "reverse_open"
       /\ syncs' = [syncs EXCEPT ![s] = after]
       /\ last_sync_timestamp' = IF SetsLastSync(syncs[s], after)
                                 THEN Dt(clock) ELSE last_sync_timestamp
       /\ UNCHANGED <<engineVars, leads, leadsWrites, oidSerial, uuidSerial,
                      minimaxFile, leadsJson, sync_cache, changeFeed, watch,
                      outside>>

\* Lines 142-155: no leads.json, and the pass returns success with a
\* message; otherwise the file is read and the loop starts.
ReverseOpen(s) ==
    LET opened == [syncs[s] EXCEPT
                      !.minimax_leads = leadsJson.leads,
                      !.sync_stats = [NoStats EXCEPT
                          !.total_leads = Len(leadsJson.leads)],
                      !.ri = 1]
        after == IF leadsJson.exists THEN ReverseLoop(opened)
                 ELSE AfterReverse(syncs[s],
                          [returned |-> TRUE, success |-> TRUE,
                           stats |-> NoStats,
                           message |-> "Arquivo nao encontrado"])
    IN /\ syncs[s].pc = "reverse_open"
       /\ syncs' = [syncs EXCEPT ![s] = after]
       /\ last_sync_timestamp' = IF SetsLastSync(syncs[s], after)
                                 THEN Dt(clock) ELSE last_sync_timestamp
       /\ UNCHANGED <<engineVars, leads, leadsWrites, oidSerial, uuidSerial,
                      minimaxFile, leadsJson, sync_cache, changeFeed, watch,
                      outside>>

\* Lines 146-148 and 195-200: leads.json is there but reading it raises (it
\* cannot be opened, or its text is no JSON); the pass returns success
\* False and db.leads is not touched.
ReverseOpenFails(s) ==
    /\ syncs[s].pc = "reverse_open"
    /\ leadsJson.exists
    /\ syncs' = [syncs EXCEPT ![s] =
           AfterReverse(@, [returned |-> TRUE, success |-> FALSE,
                            stats |-> NoStats, message |-> "JSONDecodeError"])]
    /\ UNCHANGED <<engineVars, leads, leadsWrites, oidSerial, uuidSerial,
                   minimaxFile, leadsJson, sync_cache, last_sync_timestamp,
                   changeFeed, watch, outside>>

\* Lines 160-166 and 182-184: find_one by (email, telefone), then the
\* conversion of the record.  A conversion that raises counts an error and
\* the loop goes on with the next record.
ReverseFind(s) ==
    LET minimax_lead == syncs[s].minimax_leads[syncs[s].ri]
        existing == FindOne(leads, minimax_lead.email, minimax_lead.telefone)
        after ==
            IF ConvertMinimaxLeadToMongoRaises(minimax_lead)
            THEN ReverseLoop([syncs[s] EXCEPT !.sync_stats.errors = @ + 1,
                                              !.ri = @ + 1])
            ELSE [syncs[s] EXCEPT
                     !.pc = "reverse_write", !.existing = existing,
                     !.lookupWrites = leadsWrites,
                     !.mongo_lead = ConvertMinimaxLeadToMongo(
                                        minimax_lead, Uuid(uuidSerial + 1))]
    IN /\ syncs[s].pc = "reverse_find"
       /\ syncs' = [syncs EXCEPT ![s] = after]
       /\ uuidSerial' = IF ConvertMinimaxLeadToMongoRaises(minimax_lead)
                        THEN uuidSerial ELSE uuidSerial + 1
       /\ last_sync_timestamp' = IF SetsLastSync(syncs[s], after)
                                 THEN Dt(clock) ELSE last_sync_timestamp
       /\ UNCHANGED <<engineVars, leads, leadsWrites, oidSerial, minimaxFile,
                      leadsJson, sync_cache, changeFeed, watch, outside>>

\* Lines 168-180: update_one on the document found, insert_one when none
\* was found; then the next record.
ReverseWrite(s) ==
    LET sync == syncs[s]
        counted ==
            IF sync.existing # NoOid
            THEN [sync EXCEPT !.sync_stats.updated =
                     @ + ModifiedCount(sync.existing, sync.mongo_lead)]
            ELSE [sync EXCEPT !.sync_stats.inserted = @ + 1]
        after == ReverseLoop([counted EXCEPT
                     !.ri = @ + 1, !.existing = NoOid,
                     !.mongo_lead = NoMongoLead, !.lookupWrites = 0])
    IN /\ sync.pc = "reverse_write"
       /\ IF sync.existing # NoOid
          THEN UpdateOne(sync.existing, sync.mongo_lead)
          ELSE InsertOne(sync.mongo_lead)
       /\ syncs' = [syncs EXCEPT ![s] = after]
       /\ last_sync_timestamp' = IF SetsLastSync(sync, after)
                                 THEN Dt(clock) ELSE last_sync_timestamp
       /\ UNCHANGED <<engineVars, uuidSerial, minimaxFile, leadsJson,
                      sync_cache, watch, outside>>

\* Mutant of RecordRaised: the exception ends the pass.
RecordRaisedAborts(sync) ==
    AfterReverse(sync, [returned |-> TRUE, success |-> FALSE,
                        stats |-> NoStats, message |-> "Exception"])

\* Lines 182-184: the except clause inside the loop counts the record as
\* an error; the loop takes the next record.
RecordRaised(sync) ==
    ReverseLoop([sync EXCEPT !.sync_stats.errors = @ + 1, !.ri = @ + 1,
                             !.existing = NoOid, !.mongo_lead = NoMongoLead,
                             !.lookupWrites = 0])

\* find_one, update_one or insert_one raises (the connection to the store
\* is lost for the time of the call): nothing is written.
ReverseRecordRaises(s) ==
    LET after == RecordRaised(syncs[s])
    IN /\ syncs[s].pc \in {"reverse_find", "reverse_write"}
       /\ syncs' = [syncs EXCEPT ![s] = after]
       /\ last_sync_timestamp' = IF SetsLastSync(syncs[s], after)
                                 THEN Dt(clock) ELSE last_sync_timestamp
       /\ UNCHANGED <<engineVars, leads, leadsWrites, oidSerial, uuidSerial,
                      minimaxFile, leadsJson, sync_cache, changeFeed, watch,
                      outside>>

\* A call of one of the three sync functions begins.
StartSync(kind) ==
    /\ Len(syncs) < MaxSyncs
    /\ syncs' = Append(syncs, NewSync(kind))
    /\ UNCHANGED <<engineVars, leads, leadsWrites, oidSerial, uuidSerial,
                   minimaxFile, leadsJson, sync_cache, last_sync_timestamp,
                   changeFeed, watch, outside>>

SyncLeadsMongodbToMinimax == StartSync("mongodb_to_minimax")

SyncLeadsMinimaxToMongodb == StartSync("minimax_to_mongodb")

BidirectionalSync == StartSync("bidirectional")

\* ------------------------------------------------------- watch_mongodb_changes
\* The watch coroutine.
\*   status   "off" (watch was not called), "idle" (waiting for the next
\*            change), "load" / "save" (inside _trigger_minimax_sync or
\*            _remove_from_minimax, before the file is read / written),
\*            "ended" (watch_mongodb_changes has returned)
\*   op       "upsert" or "remove": which of the two it is inside
\*   lead     the converted lead to upsert, mongo_id the _id to remove
\*   leads    the list it is about to write
NoLead == [email |-> "", telefone |-> 0]

WatchIdle == [status |-> "idle", op |-> "", lead |-> NoLead,
              mongo_id |-> NoOid, leads |-> << >>]

WatchOff == [WatchIdle EXCEPT !.status = "off"]

\* Mutant of WatchMongodbChanges: the stream is opened again after it has
\* failed.
WatchSubscribesAgain ==
    /\ watch.status \in {"off", "ended"}
    /\ watch' = WatchIdle
    /\ UNCHANGED <<engineVars, leads, leadsWrites, oidSerial, uuidSerial,
                   minimaxFile, leadsJson, sync_cache, last_sync_timestamp,
                   syncs, changeFeed, outside>>

\* Line 243: the change stream is opened; changes made from now on are
\* delivered.
WatchMongodbChanges ==
    /\ watch.status = "off"
    /\ watch' = WatchIdle
    /\ UNCHANGED <<engineVars, leads, leadsWrites, oidSerial, uuidSerial,
                   minimaxFile, leadsJson, sync_cache, last_sync_timestamp,
                   syncs, changeFeed, outside>>

\* Lines 245-260: the next change.  change['fullDocument'] raises KeyError
\* on an event without it; the except of line 259 logs that and the loop
\* waits for the next change.  _trigger_minimax_sync converts the document
\* before it loads the file.
WatchChange ==
    LET change == Head(changeFeed)
    IN /\ watch.status = "idle"
       /\ changeFeed # << >>
       /\ changeFeed' = Tail(changeFeed)
       /\ watch' =
            IF change.operationType \in {"insert", "update", "replace"}
            THEN IF "fullDocument" \in DOMAIN change
                 THEN [WatchIdle EXCEPT
                          !.status = "load", !.op = "upsert",
                          !.lead = ConvertMongoLeadToMinimax(
                                       change.fullDocument,
                                       Uuid(uuidSerial + 1), clock)]
                 ELSE WatchIdle
            ELSE [WatchIdle EXCEPT !.status = "load", !.op = "remove",
                                   !.mongo_id = change.documentKey]
       /\ uuidSerial' =
            IF /\ "fullDocument" \in DOMAIN change
               /\ "id" \notin DOMAIN change.fullDocument
            THEN uuidSerial + 1 ELSE uuidSerial
       /\ UNCHANGED <<engineVars, leads, leadsWrites, oidSerial, minimaxFile,
                      leadsJson, sync_cache, last_sync_timestamp, syncs,
                      outside>>

\* _trigger_minimax_sync, lines 274-283: the first record with the lead's
\* email and telefone is replaced, or the lead is appended.
Upsert(minimax_leads, minimax_lead) ==
    LET found == WithPair(minimax_leads, minimax_lead.email,
                          minimax_lead.telefone)
    IN IF found = {} THEN Append(minimax_leads, minimax_lead)
       ELSE [minimax_leads EXCEPT
                ![CHOOSE i \in found : \A j \in found : i <= j] = minimax_lead]

\* _remove_from_minimax, lines 384-387: the records whose original_id (a
\* str) differs from mongo_id (the ObjectId of the change's documentKey).
Remove(minimax_leads, mongo_id) ==
    LET Keep(lead) == lead.original_id # mongo_id
    IN SelectSeq(minimax_leads, Keep)

\* _load_minimax_leads inside either function, and what the function makes
\* of the list.
WatchLoad ==
    /\ watch.status = "load"
    /\ watch' = [watch EXCEPT
           !.status = "save",
           !.leads = IF watch.op = "upsert"
                     THEN Upsert(minimaxFile, watch.lead)
                     ELSE Remove(minimaxFile, watch.mongo_id)]
    /\ UNCHANGED <<engineVars, leads, leadsWrites, oidSerial, uuidSerial,
                   minimaxFile, leadsJson, sync_cache, last_sync_timestamp,
                   syncs, changeFeed, outside>>

\* _save_minimax_leads inside either function; the loop waits for the next
\* change.
WatchSave ==
    /\ watch.status = "save"
    /\ minimaxFile' = watch.leads
    /\ watch' = WatchIdle
    /\ UNCHANGED <<engineVars, leads, leadsWrites, oidSerial, uuidSerial,
                   leadsJson, sync_cache, last_sync_timestamp, syncs,
                   changeFeed, outside>>

\* Lines 262-263: the except around the loop logs the error and the
\* function returns; the stream is closed.
WatchEnded == [WatchIdle EXCEPT !.status = "ended"]

\* The change stream raises while the loop waits for the next change (the
\* connection to the store is lost, the stream cannot be resumed).
WatchStreamRaises ==
    /\ watch.status = "idle"
    /\ watch' = WatchEnded
    /\ UNCHANGED <<engineVars, leads, leadsWrites, oidSerial, uuidSerial,
                   minimaxFile, leadsJson, sync_cache, last_sync_timestamp,
                   syncs, changeFeed, outside>>

\* _save_minimax_leads raises inside _trigger_minimax_sync or
\* _remove_from_minimax: the except of lines 290-291 / 393-394 logs the
\* error and the loop waits for the next change.  The file is as it was
\* when open() failed, and empty when the write failed after it.
WatchSaveFails(opened) ==
    /\ watch.status = "save"
    /\ minimaxFile' = IF opened THEN << >> ELSE minimaxFile
    /\ watch' = WatchIdle
    /\ UNCHANGED <<engineVars, leads, leadsWrites, oidSerial, uuidSerial,
                   leadsJson, sync_cache, last_sync_timestamp, syncs,
                   changeFeed, outside>>

\* ------------------------------------------------------ backend/server.py
NothingDone == [creates |-> 0, edits |-> 0, deletes |-> 0]

\* POST /api/leads of the backend server: one insert_one.
BackendCreateLead(contact) ==
    /\ outside.creates < MaxCreates
    /\ InsertOne(BackendLeadDoc(contact, Uuid(uuidSerial + 1), clock))
    /\ uuidSerial' = uuidSerial + 1
    /\ outside' = [outside EXCEPT !.creates = @ + 1]
    /\ UNCHANGED <<engineVars, minimaxFile, leadsJson, sync_cache,
                   last_sync_timestamp, syncs, watch>>

\* ------------------------------------------------------- outside the program
\* The other system rewrites its leads.json.
LeadsJsonRewritten(file) ==
    /\ outside.edits < MaxFileEdits
    /\ <<leadsJson, file>> \in LeadsJsonEdits
    /\ leadsJson' = file
    /\ outside' = [outside EXCEPT !.edits = @ + 1]
    /\ UNCHANGED <<engineVars, leads, leadsWrites, oidSerial, uuidSerial,
                   minimaxFile, sync_cache, last_sync_timestamp, syncs,
                   changeFeed, watch>>

\* An administrator deletes a document of db.leads (the first or the last).
LeadDeleted(i) ==
    /\ outside.deletes < MaxDeletes
    /\ leads # << >>
    /\ i \in {1, Len(leads)}
    /\ leads' = [j \in 1..(Len(leads) - 1) |->
                    IF j < i THEN leads[j] ELSE leads[j + 1]]
    /\ leadsWrites' = leadsWrites + 1
    /\ changeFeed' = Emit(changeFeed, <<DeleteEvent(leads[i]._id)>>)
    /\ outside' = [outside EXCEPT !.deletes = @ + 1]
    /\ UNCHANGED <<engineVars, oidSerial, uuidSerial, minimaxFile, leadsJson,
                   sync_cache, last_sync_timestamp, syncs, watch>>

\* ============================================================== API gateway
\* POST /api/leads, lines 238-253: the lead is inserted in db.leads with a
\* fresh id and status novo.
GatewayCreateLead(contact) ==
    LET mongo_lead == GatewayLeadDoc(contact, Uuid(uuidSerial + 1), clock)
    IN /\ Len(calls) < MaxCalls
       /\ InsertOne(mongo_lead)
       /\ uuidSerial' = uuidSerial + 1
       /\ calls' = Append(calls,
              [NewCall(NoEvent, "", << >>) EXCEPT
                  !.pc = "gateway_inserted",
                  !.request = [kind |-> "create_lead", doc |-> mongo_lead]])
       /\ UNCHANGED <<active_sequences, minimax_config, event_queue,
                      instancesFile, logFile, clock, eventSerial, minimaxFile,
                      leadsJson, sync_cache, last_sync_timestamp, syncs, watch,
                      outside>>

\* POST /api/leads, lines 255-263: trigger_lead_capture for the lead.
GatewayTriggerLeadCapture(c) ==
    LET event == AutomationEvent("lead_capture", eventSerial + 1,
                                 calls[c].request.doc.email)
    IN /\ calls[c].pc = "gateway_inserted"
       /\ event_queue' = Append(event_queue, event)
       /\ calls' = [calls EXCEPT ![c] =
              Run([NewCall(event, "",
                           MatchingSequences(active_sequences, event))
                      EXCEPT !.request = calls[c].request],
                  clock, minimax_config)]
       /\ eventSerial' = eventSerial + 1
       /\ UNCHANGED <<bridgeVars, active_sequences, minimax_config,
                      instancesFile, logFile, clock>>

\* POST /api/leads, lines 265-281: the trigger is back; the handler adds
\* sync_leads_mongodb_to_minimax as a background task and responds.  The
\* task starts once the response is sent.
GatewayRespond(c) ==
    /\ calls[c].pc = "done"
    /\ calls[c].request.kind = "create_lead"
    /\ calls' = [calls EXCEPT ![c] = [@ EXCEPT !.pc = "responded"]]
    /\ syncs' = Append(syncs, NewSync("mongodb_to_minimax"))
    /\ UNCHANGED <<active_sequences, minimax_config, event_queue,
                   instancesFile, logFile, clock, eventSerial, leads,
                   leadsWrites, oidSerial, uuidSerial, minimaxFile, leadsJson,
                   sync_cache, last_sync_timestamp, changeFeed, watch, outside>>

\* ------------------------------------------------------ PATCH /api/leads/{id}
\* LeadUpdate as a request carries it: "None" for a field that is not set.
\* The backend's LeadUpdate has no source field and ignores one.
LeadUpdate(status, notas, source) ==
    [status |-> status, notas |-> notas, source |-> source]

LeadUpdates ==
    { LeadUpdate("novo", "None", "None"),
      LeadUpdate("qualificado", "None", "None"),
      LeadUpdate("None", "ligar", "None"),
      LeadUpdate("None", "None", "None") }

\* Mutant of FindById: the lookup takes the first document whatever its id.
FindByIdAny(docs, id) == IF docs = << >> THEN 0 ELSE 1

\* find_one({"id": lead_id}) and the filter of update_one: the position of
\* the first document with this id, 0 when there is none.
FindById(docs, id) ==
    LET found == { i \in 1..Len(docs) : Get(docs[i], "id", NoOid) = id }
    IN IF found = {} THEN 0
       ELSE CHOOSE i \in found : \A j \in found : i <= j

\* update_one({"id": lead_id}, {"$set": fields})
UpdateOneById(id, fields) ==
    UpdateOne(IF FindById(leads, id) = 0 THEN NoOid
              ELSE leads[FindById(leads, id)]._id, fields)

\* The fields of a record restricted to those that are set.
SetOnes(fields) ==
    [k \in { f \in DOMAIN fields : fields[f] # "None" } |-> fields[k]]

\* Mutant of GatewayUpdateDict: a status update also resets the notes.
GatewayUpdateDictWipes(update_data, now) ==
    [status |-> update_data.status, notas |-> "", updated_at |-> Dt(now)]

\* fused_api_gateway.py update_lead, lines 361-369: the $set document.
GatewayUpdateDict(update_data, now) ==
    LET set == SetOnes([status |-> update_data.status,
                        notas |-> update_data.notas,
                        fonte |-> update_data.source])
    IN [k \in DOMAIN set \cup {"updated_at"} |->
           IF k = "updated_at" THEN Dt(now) ELSE set[k]]

\* backend/server.py update_lead, line 155: the fields that are not None.
BackendUpdateDict(update_data) ==
    SetOnes([status |-> update_data.status, notas |-> update_data.notas])

\* The request of an update_lead handler: which server, the arguments, the
\* lead the handler read, and the status code of its response (0: none yet).
UpdateRequest(server, lead_id, update_data, doc, code) ==
    [kind |-> "update_lead", server |-> server, lead_id |-> lead_id,
     update_data |-> update_data, doc |-> doc, status_code |-> code]

Responded(call, code) ==
    [call EXCEPT !.pc = "responded", !.request.status_code = code]

\* Gateway update_lead, lines 350-356: find_one by id; 404 when there is no
\* such lead.
GatewayUpdateLead(lead_id, update_data) ==
    LET i == FindById(leads, lead_id)
        call == NewCall(NoEvent, "", << >>)
    IN /\ Len(calls) < MaxCalls
       /\ calls' = Append(calls,
              IF i = 0
              THEN Responded([call EXCEPT !.request =
                       UpdateRequest("gateway", lead_id, update_data, << >>, 0)],
                       404)
              ELSE [call EXCEPT
                       !.pc = "gateway_update",
                       !.request = UpdateRequest("gateway", lead_id,
                                       update_data, leads[i], 0)])
       /\ UNCHANGED <<bridgeVars, active_sequences, minimax_config,
                      event_queue, instancesFile, logFile, clock, eventSerial>>

\* Gateway update_lead, lines 358-389: update_one with the $set document;
\* then, when a status is given that differs from the one read before,
\* trigger_status_change is entered.
GatewayUpdateOne(c) ==
    LET request == calls[c].request
        lead == request.doc
        new_status == request.update_data.status
        changed == new_status # "None" /\ new_status # Get(lead, "status", "novo")
        event == AutomationEvent("status_change", eventSerial + 1,
                                 Get(lead, "email", ""))
    IN /\ calls[c].pc = "gateway_update"
       /\ UpdateOneById(request.lead_id,
                        GatewayUpdateDict(request.update_data, clock))
       /\ event_queue' = IF changed THEN Append(event_queue, event)
                         ELSE event_queue
       /\ eventSerial' = IF changed THEN eventSerial + 1 ELSE eventSerial
       /\ calls' = [calls EXCEPT ![c] =
              IF changed
              THEN Run([NewCall(event, new_status,
                                MatchingSequences(active_sequences, event))
                           EXCEPT !.request = request],
                       clock, minimax_config)
              ELSE [@ EXCEPT !.pc = "gateway_updated"]]
       /\ UNCHANGED <<active_sequences, minimax_config, instancesFile,
                      logFile, clock, uuidSerial, minimaxFile, leadsJson,
                      sync_cache, last_sync_timestamp, syncs, watch, outside>>

\* Gateway update_lead, lines 391-408: the sync is added as a background
\* task, the lead is read again and returned.  updated_lead.get raises on
\* None when the lead is gone, which the handler turns into a 500.
GatewayUpdateRespond(c) ==
    LET found == FindById(leads, calls[c].request.lead_id) # 0
    IN /\ calls[c].pc \in {"done", "gateway_updated"}
       /\ calls[c].request.kind = "update_lead"
       /\ calls' = [calls EXCEPT ![c] =
              Responded(@, IF found THEN 200 ELSE 500)]
       /\ syncs' = IF found THEN Append(syncs, NewSync("mongodb_to_minimax"))
                   ELSE syncs
       /\ UNCHANGED <<active_sequences, minimax_config, event_queue,
                      instancesFile, logFile, clock, eventSerial, leads,
                      leadsWrites, oidSerial, uuidSerial, minimaxFile,
                      leadsJson, sync_cache, last_sync_timestamp, changeFeed,
                      watch, outside>>

\* Backend update_lead, lines 155-162: 400 when no field is set; update_one
\* by id, 404 when it matched no lead.
BackendUpdateLead(lead_id, update_data) ==
    LET update_dict == BackendUpdateDict(update_data)
        i == FindById(leads, lead_id)
        call == [NewCall(NoEvent, "", << >>) EXCEPT !.request =
                    UpdateRequest("backend", lead_id, update_data, << >>, 0)]
    IN /\ Len(calls) < MaxCalls
       /\ IF DOMAIN update_dict = {}
          THEN /\ calls' = Append(calls, Responded(call, 400))
               /\ UNCHANGED <<leads, leadsWrites, oidSerial, changeFeed>>
          ELSE /\ UpdateOneById(lead_id, update_dict)
               /\ calls' = Append(calls,
                      IF i = 0 THEN Responded(call, 404)
                      ELSE [call EXCEPT !.pc = "backend_updated"])
       /\ UNCHANGED <<active_sequences, minimax_config, event_queue,
                      instancesFile, logFile, clock, eventSerial, uuidSerial,
                      minimaxFile, leadsJson, sync_cache, last_sync_timestamp,
                      syncs, watch, outside>>

\* Backend update_lead, lines 164-167: the lead is read again and returned;
\* updated_lead['timestamp'] raises when the lead is gone or has none.
BackendUpdateRespond(c) ==
    LET i == FindById(leads, calls[c].request.lead_id)
    IN /\ calls[c].pc = "backend_updated"
       /\ calls' = [calls EXCEPT ![c] =
              Responded(@, IF i # 0 /\ "timestamp" \in DOMAIN leads[i]
                           THEN 200 ELSE 500)]
       /\ UNCHANGED <<bridgeVars, active_sequences, minimax_config,
                      event_queue, instancesFile, logFile, clock, eventSerial>>

\* =========================================================== specifications
\* The bridge before any call, with empty stores.
BridgeIdle ==
    /\ leads = << >>
    /\ leadsWrites = 0
    /\ oidSerial = 0
    /\ uuidSerial = 0
    /\ minimaxFile = << >>
    /\ leadsJson = NoFile
    /\ sync_cache = {}
    /\ last_sync_timestamp = NoneValue
    /\ syncs = << >>
    /\ changeFeed = << >>
    /\ watch = WatchOff
    /\ outside = NothingDone

\* The engine after initialize(), before any trigger.
EngineIdle(stored, config) ==
    /\ active_sequences = InitialRegistry(stored)
    /\ minimax_config = config
    /\ event_queue = << >>
    /\ instancesFile = << >>
    /\ logFile = << >>
    /\ calls = << >>
    /\ clock = 0
    /\ eventSerial = 0

\* ------------------------------------------------ the engine on its own
InitEngine ==
    /\ \E stored \in StoredSequenceFiles, config \in {"loaded", "None"} :
           EngineIdle(stored, config)
    /\ BridgeIdle

NextEngine ==
    \/ \E e \in LeadEmails : TriggerLeadCapture(e)
    \/ \E e \in LeadEmails, s \in StatusInputs : TriggerStatusChange(e, s)
    \/ \E e \in LeadEmails : TriggerCartAbandonment(e)
    \/ \E e \in LeadEmails : TriggerPurchaseCompleted(e)
    \/ \E c \in CallIds : SaveRead(c)
    \/ \E c \in CallIds : SaveWrite(c)
    \/ \E c \in CallIds : DelayWake(c)
    \/ \E c \in CallIds : LogRead(c)
    \/ \E c \in CallIds : LogWrite(c)
    \/ \E c \in CallIds : StepWake(c)

SpecEngine == InitEngine /\ [][NextEngine]_vars

\* ------------------------------------------------ the bridge on its own
\* db.leads is empty or holds an imported document; leads_minimax.json is
\* absent or left from an earlier run; leads.json is any of LeadsJsonFiles.
InitBridge ==
    /\ EngineIdle(<< >>, "loaded")
    /\ leads \in {<< >>, <<ImportedLeadDoc>>}
    /\ leadsWrites = 0
    /\ oidSerial = Len(leads)
    /\ uuidSerial = 0
    /\ minimaxFile \in {<< >>, <<StaleMinimaxLead>>}
    /\ leadsJson \in {NoFile, TwoPhones, BadDate}
    /\ sync_cache = {}
    /\ last_sync_timestamp = NoneValue
    /\ syncs = << >>
    /\ changeFeed = << >>
    /\ watch = WatchOff
    /\ outside = NothingDone

NextBridge ==
    \/ SyncLeadsMongodbToMinimax
    \/ SyncLeadsMinimaxToMongodb
    \/ BidirectionalSync
    \/ \E s \in SyncIds : ForwardRead(s)
    \/ \E s \in SyncIds : ForwardSave(s)
    \/ \E s \in SyncIds, opened \in BOOLEAN : ForwardSaveFails(s, opened)
    \/ \E s \in SyncIds : ReverseOpen(s)
    \/ \E s \in SyncIds : ReverseFind(s)
    \/ \E s \in SyncIds : ReverseWrite(s)
    \/ \E contact \in Contacts : BackendCreateLead(contact)
    \/ \E file \in LeadsJsonFiles : LeadsJsonRewritten(file)

SpecBridge == InitBridge /\ [][NextBridge]_vars

\* ------------------------------------------------ the bridge with its watch
\* watch_mongodb_changes runs next to lead creations, deletions and a pass
\* from leads.json (whose update_one calls make update events).
InitWatch ==
    /\ InitBridge
    /\ leadsJson = TwoPhones

NextWatch ==
    \/ WatchMongodbChanges
    \/ WatchChange
    \/ WatchLoad
    \/ WatchSave
    \/ SyncLeadsMinimaxToMongodb
    \/ \E s \in SyncIds : ReverseOpen(s)
    \/ \E s \in SyncIds : ReverseFind(s)
    \/ \E s \in SyncIds : ReverseWrite(s)
    \/ \E contact \in Contacts : BackendCreateLead(contact)
    \/ \E i \in 1..Len(leads) : LeadDeleted(i)

SpecWatch == InitWatch /\ [][NextWatch]_vars

\* ------------------------------------------------ the watch and its errors
\* watch_mongodb_changes runs next to lead creations and a pass from
\* leads.json; the stream and the writes of the file may fail.
InitWatchErrors ==
    /\ InitBridge
    /\ leads = << >>
    /\ minimaxFile = << >>
    /\ leadsJson = TwoPhones

NextWatchErrors ==
    \/ WatchMongodbChanges
    \/ WatchChange
    \/ WatchLoad
    \/ WatchSave
    \/ \E opened \in BOOLEAN : WatchSaveFails(opened)
    \/ WatchStreamRaises
    \/ SyncLeadsMinimaxToMongodb
    \/ \E s \in SyncIds : ReverseOpen(s)
    \/ \E s \in SyncIds : ReverseFind(s)
    \/ \E s \in SyncIds : ReverseWrite(s)
    \/ \E contact \in Contacts : BackendCreateLead(contact)

SpecWatchErrors == InitWatchErrors /\ [][NextWatchErrors]_vars

\* ------------------------------------------- the engine stopped and started
\* Mutant of Restart: initialize marks the instances persisted as running
\* as interrupted.
RestartMarksInterrupted ==
    /\ \E c \in CallIds : calls[c].pc = "sleep"
    /\ eventSerial <= MaxCalls
    /\ calls' = << >>
    /\ event_queue' = << >>
    /\ active_sequences' = InitialRegistry(active_sequences)
    /\ instancesFile' = [k \in DOMAIN instancesFile |->
           IF instancesFile[k].status = "running"
           THEN [instancesFile[k] EXCEPT !.status = "interrupted"]
           ELSE instancesFile[k]]
    /\ UNCHANGED <<bridgeVars, minimax_config, logFile, clock, eventSerial>>

\* The process stops while a sequence is in the pause between two steps
\* (asyncio.sleep, line 289) and is started again.  The coroutines and the
\* queue are gone with the process; the files are as they were.
\* initialize() (lines 76-95) loads the configuration, the sequences of
\* active_sequences.json (which holds the registry since line 579 saved it)
\* and seeds the defaults; it does not read sequence_instances.json.
Restart ==
    /\ \E c \in CallIds : calls[c].pc = "sleep"
    /\ eventSerial <= MaxCalls
    /\ calls' = << >>
    /\ event_queue' = << >>
    /\ active_sequences' = InitialRegistry(active_sequences)
    /\ UNCHANGED <<bridgeVars, minimax_config, instancesFile, logFile, clock,
                   eventSerial>>

\* active_sequences.json holds a sequence for status changes with a pause
\* between its steps.
InitRestart ==
    /\ \E stored \in { f \in StoredSequenceFiles :
                         /\ f # << >>
                         /\ \A i \in 1..Len(f) :
                                f[i].trigger_event = "status_change" },
          config \in {"loaded", "None"} : EngineIdle(stored, config)
    /\ BridgeIdle

NextRestart ==
    \/ \E e \in LeadEmails : TriggerLeadCapture(e)
    \/ \E e \in LeadEmails, s \in StatusInputs : TriggerStatusChange(e, s)
    \/ \E c \in CallIds : SaveRead(c)
    \/ \E c \in CallIds : SaveWrite(c)
    \/ \E c \in CallIds : DelayWake(c)
    \/ \E c \in CallIds : LogRead(c)
    \/ \E c \in CallIds : LogWrite(c)
    \/ \E c \in CallIds : StepWake(c)
    \/ Restart

SpecRestart == InitRestart /\ [][NextRestart]_vars

\* ---------------------------------------------- bidirectional_sync, failing
\* bidirectional_sync is called; the write of leads_minimax.json and the
\* read of leads.json may fail.
NextBidirectional ==
    \/ BidirectionalSync
    \/ \E s \in SyncIds : ForwardRead(s)
    \/ \E s \in SyncIds : ForwardSave(s)
    \/ \E s \in SyncIds, opened \in BOOLEAN : ForwardSaveFails(s, opened)
    \/ \E s \in SyncIds : ReverseOpen(s)
    \/ \E s \in SyncIds : ReverseOpenFails(s)
    \/ \E s \in SyncIds : ReverseFind(s)
    \/ \E s \in SyncIds : ReverseWrite(s)

SpecBidirectional == InitBridge /\ [][NextBidirectional]_vars

\* ------------------------------------- the primary -> file pass, large store
\* One more lead than a read of db.leads returns, each with its own id and
\* phone number.
ManyLeads ==
    [i \in 1..(ToListLength + 1) |->
        WithId(GatewayLeadDoc([nome |-> "Lead", email |-> "lead@x.com",
                               telefone |-> 1000 + i], Uuid(i), 0), Oid(i))]

InitManyLeads ==
    /\ EngineIdle(<< >>, "loaded")
    /\ leads = ManyLeads
    /\ leadsWrites = 0
    /\ oidSerial = Len(ManyLeads)
    /\ uuidSerial = Len(ManyLeads)
    /\ minimaxFile \in {<< >>, <<StaleMinimaxLead>>}
    /\ leadsJson = NoFile
    /\ sync_cache = {}
    /\ last_sync_timestamp = NoneValue
    /\ syncs = << >>
    /\ changeFeed = << >>
    /\ watch = WatchOff
    /\ outside = NothingDone

NextManyLeads ==
    \/ SyncLeadsMongodbToMinimax
    \/ \E s \in SyncIds : ForwardRead(s)
    \/ \E s \in SyncIds : ForwardSave(s)
    \/ \E s \in SyncIds, opened \in BOOLEAN : ForwardSaveFails(s, opened)
    \/ \E contact \in Contacts : BackendCreateLead(contact)

SpecManyLeads == InitManyLeads /\ [][NextManyLeads]_vars

\* ------------------------------------------ the engine with a long log file
\* automation_log.json as earlier runs left it: n entries, oldest first.
OldLog(n) ==
    [i \in 1..n |->
        [timestamp |-> i - n - 1, action |-> "email_sent",
         event_id |-> <<"lead_capture", i - n - 1>>,
         lead_email |-> "old@x.com", sequence_id |-> "None"]]

\* The engine starts with the seeded sequences and a log file that is one
\* entry short of LogCap, or holds LogCap entries.
InitFullLog ==
    /\ active_sequences = InitialRegistry(<< >>)
    /\ minimax_config \in {"loaded", "None"}
    /\ event_queue = << >>
    /\ instancesFile = << >>
    /\ logFile \in {OldLog(LogCap - 1), OldLog(LogCap)}
    /\ calls = << >>
    /\ clock = 0
    /\ eventSerial = 0
    /\ BridgeIdle

NextFullLog ==
    \/ \E e \in LeadEmails : TriggerLeadCapture(e)
    \/ \E e \in LeadEmails : TriggerPurchaseCompleted(e)
    \/ \E c \in CallIds : SaveRead(c)
    \/ \E c \in CallIds : SaveWrite(c)
    \/ \E c \in CallIds : LogRead(c)
    \/ \E c \in CallIds : LogWrite(c)

SpecFullLog == InitFullLog /\ [][NextFullLog]_vars

\* ------------------------------------ primary -> file passes, side by side
\* Five leads with pairwise distinct (email, telefone): created through the
\* two APIs, or one of them imported (no id, no timestamp).
FiveLeads(imported) ==
    [i \in 1..5 |->
        IF i = 5 /\ imported THEN [ImportedLeadDoc EXCEPT !._id = Oid(5)]
        ELSE WithId(IF i % 2 = 0
                    THEN BackendLeadDoc([nome |-> "Lead", email |-> "lead@x.com",
                                         telefone |-> 910 + i], Uuid(i), 0)
                    ELSE GatewayLeadDoc([nome |-> "Lead", email |-> "lead@x.com",
                                         telefone |-> 910 + i], Uuid(i), 0),
                    Oid(i))]

InitTwoSyncs ==
    /\ EngineIdle(<< >>, "loaded")
    /\ leads \in {FiveLeads(FALSE), FiveLeads(TRUE)}
    /\ leadsWrites = 0
    /\ oidSerial = 5
    /\ uuidSerial = 5
    /\ minimaxFile \in {<< >>, <<StaleMinimaxLead>>}
    /\ leadsJson = NoFile
    /\ sync_cache = {}
    /\ last_sync_timestamp = NoneValue
    /\ syncs = << >>
    /\ changeFeed = << >>
    /\ watch = WatchOff
    /\ outside = NothingDone

NextTwoSyncs ==
    \/ SyncLeadsMongodbToMinimax
    \/ \E s \in SyncIds : ForwardRead(s)
    \/ \E s \in SyncIds : SaveMinimaxLeadsOpen(s)
    \/ \E s \in SyncIds, shorter \in BOOLEAN : SaveMinimaxLeadsWrite(s, shorter)
    \/ \E s \in SyncIds, opened \in BOOLEAN : ForwardSaveFails(s, opened)

SpecTwoSyncs == InitTwoSyncs /\ [][NextTwoSyncs]_vars

\* ------------------------------------------------- the update_lead handlers
\* db.leads holds a lead created through the gateway and one created
\* through the backend, both novo.
UpdateLeads ==
    << WithId(GatewayLeadDoc([nome |-> "Ana", email |-> "ana@x.com",
                              telefone |-> 901], Uuid(1), 0), Oid(1)),
       WithId(BackendLeadDoc([nome |-> "Ana", email |-> "ana@x.com",
                              telefone |-> 902], Uuid(2), 0), Oid(2)) >>

\* The ids requests name: those of the two leads, and one no lead has.
LeadIdInputs == {Uuid(1), Uuid(2), Uuid(99)}

\* active_sequences.json is absent or holds a sequence for status changes.
InitUpdate ==
    /\ \E stored \in { f \in StoredSequenceFiles :
                         \A i \in 1..Len(f) : f[i].trigger_event = "status_change" },
          config \in {"loaded", "None"} : EngineIdle(stored, config)
    /\ leads = UpdateLeads
    /\ leadsWrites = 0
    /\ oidSerial = 2
    /\ uuidSerial = 2
    /\ minimaxFile = << >>
    /\ leadsJson = NoFile
    /\ sync_cache = {}
    /\ last_sync_timestamp = NoneValue
    /\ syncs = << >>
    /\ changeFeed = << >>
    /\ watch = WatchOff
    /\ outside = NothingDone

NextUpdate ==
    \/ \E id \in LeadIdInputs, u \in LeadUpdates : GatewayUpdateLead(id, u)
    \/ \E c \in CallIds : GatewayUpdateOne(c)
    \/ \E c \in CallIds : GatewayUpdateRespond(c)
    \/ \E id \in LeadIdInputs, u \in LeadUpdates : BackendUpdateLead(id, u)
    \/ \E c \in CallIds : BackendUpdateRespond(c)
    \/ \E c \in CallIds : SaveRead(c)
    \/ \E c \in CallIds : SaveWrite(c)
    \/ \E c \in CallIds : DelayWake(c)
    \/ \E c \in CallIds : LogRead(c)
    \/ \E c \in CallIds : LogWrite(c)
    \/ \E c \in CallIds : StepWake(c)

SpecUpdate == InitUpdate /\ [][NextUpdate]_vars

\* ------------------------------------------------ the two converters alone
\* A record without the fields named.
Without(doc, fields) == [k \in DOMAIN doc \ fields |-> doc[k]]

\* Records db.leads may hold: made by either API, by a pass from leads.json
\* or by an import.  Every one has its contact; id, status, notas and
\* timestamp may be missing, and a timestamp is a datetime, an ISO string
\* or some other string.
StoreRecords ==
    { Without([_id |-> Oid(1), id |-> Uuid(1), nome |-> "Ana",
               email |-> "ana@x.com", telefone |-> 901, status |-> status,
               fonte |-> "landing_page", timestamp |-> timestamp,
               notas |-> notas], missing) :
        status \in {"novo", "qualificado"},
        timestamp \in {Dt(1), Iso(1), NotADate},
        notas \in {"None", "ligar"},
        missing \in SUBSET {"id", "status", "notas", "timestamp"} }

InitRoundTrip ==
    /\ EngineIdle(<< >>, "loaded")
    /\ leads \in { <<doc>> : doc \in StoreRecords }
    /\ leadsWrites = 0
    /\ oidSerial = 1
    /\ uuidSerial = 1
    /\ minimaxFile = << >>
    /\ leadsJson = NoFile
    /\ sync_cache = {}
    /\ last_sync_timestamp = NoneValue
    /\ syncs = << >>
    /\ changeFeed = << >>
    /\ watch = WatchOff
    /\ outside = NothingDone

\* _convert_mongo_lead_to_minimax applied to the record.
ConvertToMinimax ==
    /\ minimaxFile = << >>
    /\ minimaxFile' = ConvertAll(leads, uuidSerial, clock)
    /\ uuidSerial' = uuidSerial + 1
    /\ UNCHANGED <<engineVars, leads, leadsWrites, oidSerial, leadsJson,
                   sync_cache, last_sync_timestamp, syncs, changeFeed, watch,
                   outside>>

\* _convert_minimax_lead_to_mongo applied to the result: it returns a
\* record or raises.
ConvertToMongo ==
    /\ minimaxFile # << >>
    /\ syncs = << >>
    /\ syncs' = << IF ConvertMinimaxLeadToMongoRaises(minimaxFile[1])
                   THEN [NewSync("minimax_to_mongodb") EXCEPT !.pc = "raised"]
                   ELSE [NewSync("minimax_to_mongodb") EXCEPT
                            !.pc = "converted",
                            !.mongo_lead = ConvertMinimaxLeadToMongo(
                                minimaxFile[1], Uuid(uuidSerial + 1))] >>
    /\ uuidSerial' = uuidSerial + 1
    /\ UNCHANGED <<engineVars, leads, leadsWrites, oidSerial, minimaxFile,
                   leadsJson, sync_cache, last_sync_timestamp, changeFeed,
                   watch, outside>>

NextRoundTrip ==
    \/ ConvertToMinimax
    \/ ConvertToMongo

SpecRoundTrip == InitRoundTrip /\ [][NextRoundTrip]_vars

\* ------------------------------------ the primary -> file pass, run again
\* Clock readings of one run.
MaxTicks == 2

\* Time passes.
Tick ==
    /\ clock < MaxTicks
    /\ clock' = clock + 1
    /\ UNCHANGED <<bridgeVars, active_sequences, minimax_config, event_queue,
                   instancesFile, logFile, calls, eventSerial>>

\* db.leads is empty, holds the leads of the two APIs, an imported lead, or
\* all three; nothing writes to it.
InitResync ==
    /\ EngineIdle(<< >>, "loaded")
    /\ leads \in { << >>, UpdateLeads,
                   <<[ImportedLeadDoc EXCEPT !._id = Oid(3)]>>,
                   Append(UpdateLeads, [ImportedLeadDoc EXCEPT !._id = Oid(3)]) }
    /\ leadsWrites = 0
    /\ oidSerial = 3
    /\ uuidSerial = 3
    /\ minimaxFile \in {<< >>, <<StaleMinimaxLead>>}
    /\ leadsJson = NoFile
    /\ sync_cache = {}
    /\ last_sync_timestamp = NoneValue
    /\ syncs = << >>
    /\ changeFeed = << >>
    /\ watch = WatchOff
    /\ outside = NothingDone

NextResync ==
    \/ SyncLeadsMongodbToMinimax
    \/ \E s \in SyncIds : ForwardRead(s)
    \/ \E s \in SyncIds : ForwardSave(s)
    \/ Tick

SpecResync == InitResync /\ [][NextResync]_vars

\* ------------------------------------- the primary -> file pass, save failing
\* Passes over a store nothing writes to, at one reading of the clock; the
\* write of leads_minimax.json may fail.
NextSaveFails ==
    \/ SyncLeadsMongodbToMinimax
    \/ \E s \in SyncIds : ForwardRead(s)
    \/ \E s \in SyncIds : ForwardSave(s)
    \/ \E s \in SyncIds, opened \in BOOLEAN : ForwardSaveFails(s, opened)

SpecSaveFails == InitResync /\ [][NextSaveFails]_vars

\* -------------------------------------------- passes with failing records
\* leads.json holds two good records, or a record with a bad date before a
\* good one; a call to the store may fail.
InitErrors ==
    /\ InitBridge
    /\ leadsJson \in {TwoPhones, BadDate}

NextErrors ==
    \/ SyncLeadsMongodbToMinimax
    \/ SyncLeadsMinimaxToMongodb
    \/ \E s \in SyncIds : ForwardRead(s)
    \/ \E s \in SyncIds : ForwardSave(s)
    \/ \E s \in SyncIds : ReverseOpen(s)
    \/ \E s \in SyncIds : ReverseFind(s)
    \/ \E s \in SyncIds : ReverseWrite(s)
    \/ \E s \in SyncIds : ReverseRecordRaises(s)

SpecErrors == InitErrors /\ [][NextErrors]_vars

\* ------------------------------------------------ the gateway, with both
\* The gateway starts the engine with no active_sequences.json, so that the
\* registry holds the seeded sequences only.  No step of the sequence for
\* new leads sleeps (its delays are in the step configs), so the two wake
\* actions have no part here.
Init ==
    /\ \E config \in {"loaded", "None"} : EngineIdle(<< >>, config)
    /\ BridgeIdle

Next ==
    \/ \E contact \in Contacts : GatewayCreateLead(contact)
    \/ \E c \in CallIds : GatewayTriggerLeadCapture(c)
    \/ \E c \in CallIds : SaveRead(c)
    \/ \E c \in CallIds : SaveWrite(c)
    \/ \E c \in CallIds : LogRead(c)
    \/ \E c \in CallIds : LogWrite(c)
    \/ \E c \in CallIds : GatewayRespond(c)
    \/ \E s \in SyncIds : ForwardRead(s)
    \/ \E s \in SyncIds : ForwardSave(s)
    \/ \E s \in SyncIds, opened \in BOOLEAN : ForwardSaveFails(s, opened)

Spec == Init /\ [][Next]_vars

\* =================================================================== claims
\* A record of leads_minimax.json is the conversion of this document (the
\* time of the conversion and a generated lead_id left aside).
ConvertedFrom(minimax_lead, mongo_lead) ==
    [minimax_lead EXCEPT !.updated_at = Iso(0)] =
    [ConvertMongoLeadToMinimax(mongo_lead, minimax_lead.lead_id,
                               minimax_lead.timestamp[2])
        EXCEPT !.updated_at = Iso(0)]

\* C1: when sync_leads_mongodb_to_minimax returns success, and db.leads is
\* as the pass read it, leads_minimax.json holds one converted record for
\* every lead of db.leads, in order, and nothing else.
C1_FileHoldsEveryLead ==
    [][\A s \in SyncIds :
          (/\ syncs[s].pc = "forward_save"
           /\ syncs'[s].forward.success
           /\ syncs[s].readWrites = leadsWrites)
          => /\ Len(minimaxFile') = Len(leads)
             /\ \A i \in 1..Len(leads) :
                   /\ i <= Len(minimaxFile')
                   /\ ConvertedFrom(minimaxFile'[i], leads[i])]_vars

\* The pairs (email, telefone) found in a list of documents, and the number
\* of documents with a pair.
PairsOf(docs) == { <<docs[i].email, docs[i].telefone>> : i \in 1..Len(docs) }

PairCount(docs, pair) == Cardinality(WithPair(docs, pair[1], pair[2]))

\* The step in which call s of sync_leads_minimax_to_mongodb writes the
\* current record of leads.json to db.leads.
WritesRecord(s) ==
    /\ syncs[s].pc = "reverse_write"
    /\ syncs'[s] # syncs[s]

RecordPair(s) == <<syncs[s].mongo_lead.email, syncs[s].mongo_lead.telefone>>

\* C2 as stated: a record is inserted only when no primary record has its
\* pair, so the pass never raises the number of primary records that share
\* a pair.
C2_Original_NeverDuplicates ==
    [][\A s \in SyncIds : WritesRecord(s) =>
          /\ Len(leads') > Len(leads) => PairCount(leads, RecordPair(s)) = 0
          /\ \A pair \in PairsOf(leads') :
                PairCount(leads', pair) <= Max(PairCount(leads, pair), 1)]_vars

\* C2 amended: a record whose lookup found a primary record updates that
\* record in place: no record is added and no record changes its pair.  A
\* record whose lookup found none is inserted.  Either way the record's
\* pair is in db.leads afterwards, so that two records of the file with
\* one email and two phones make two primary records.  The lookup finds a
\* record exactly when one has the pair, and the write raises no pair's
\* count above one, provided no other writer has written db.leads between
\* the lookup and the write; the bridge takes no lock, and a pass that
\* overlaps another writer can insert a second record for a pair.
C2_UpsertByPair ==
    [][\A s \in SyncIds : WritesRecord(s) =>
          LET found == syncs[s].existing # NoOid
              alone == syncs[s].lookupWrites = leadsWrites
          IN /\ found =>
                  /\ Len(leads') = Len(leads)
                  /\ \A pair \in PairsOf(leads) \cup PairsOf(leads') :
                        PairCount(leads', pair) = PairCount(leads, pair)
             /\ ~found =>
                  /\ Len(leads') = Len(leads) + 1
                  /\ PairCount(leads', RecordPair(s)) =
                        PairCount(leads, RecordPair(s)) + 1
             /\ PairCount(leads', RecordPair(s)) >= 1
             /\ alone =>
                  /\ found <=> PairCount(leads, RecordPair(s)) > 0
                  /\ \A pair \in PairsOf(leads') :
                        PairCount(leads', pair)
                           <= Max(PairCount(leads, pair), 1)]_vars

\* A pass over the two leads of one email and two phones has updated the
\* record a lead created before had made for the first phone, and inserted
\* one for the second.
C2_Witness ==
    \E s \in SyncIds :
        /\ syncs[s].reverse.returned
        /\ syncs[s].reverse.stats.updated = 1
        /\ syncs[s].reverse.stats.inserted = 1
        /\ PairCount(leads, <<"ana@x.com", 901>>) = 1
        /\ PairCount(leads, <<"ana@x.com", 902>>) = 1

\* C3: no two documents of db.leads share an id and no two records of
\* leads_minimax.json share a lead_id.
C3_IdentifiersUnique ==
    /\ \A i, j \in 1..Len(leads) :
          (i # j /\ "id" \in DOMAIN leads[i] /\ "id" \in DOMAIN leads[j])
             => leads[i].id # leads[j].id
    /\ \A i, j \in 1..Len(minimaxFile) :
          i # j => minimaxFile[i].lead_id # minimaxFile[j].lead_id

\* The n-th step of the registered sequence with this id.
StepOf(sequence_id, n) ==
    LET i == CHOOSE j \in 1..Len(active_sequences) :
                 active_sequences[j].sequence_id = sequence_id
    IN active_sequences[i].steps[n]

Terminal == {"completed", "error"}

\* The status of the k-th instance of call c in the list of calls cs, "none"
\* while that instance does not exist.
InstStatus(cs, c, k) ==
    IF c <= Len(cs) /\ k <= Len(cs[c].insts) THEN cs[c].insts[k].status
    ELSE "none"

StatusMovesWithin(moves) ==
    \A c \in 1..Len(calls') : \A k \in 1..Len(calls'[c].insts) :
        \/ InstStatus(calls, c, k) = InstStatus(calls', c, k)
        \/ <<InstStatus(calls, c, k), InstStatus(calls', c, k)>> \in moves

StartedSteps(call, sequence_id) ==
    { call.trace[i].step : i \in { j \in 1..Len(call.trace) :
          /\ call.trace[j].sequence_id = sequence_id
          /\ call.trace[j].ev = "start" } }

\* C5 as stated: when a step raises, the exception propagates out of
\* _execute_sequence to its caller.
C5_Original_Propagates ==
    \A c \in CallIds :
        (/\ calls[c].insts # << >>
         /\ CurInst(calls[c]).status = "error"
         /\ calls[c].pc \in {"save_read", "save_write"})
        => calls[c].exc

\* C5 amended: when a step raises, the instance is marked error with the
\* exception message and no later step of that sequence is executed; the
\* exception is caught in _execute_sequence and does not reach its caller.
C5_ErrorStopsSequence ==
    \A c \in CallIds :
        /\ ~calls[c].exc
        /\ ~calls[c].result.raised
        /\ \A k \in 1..Len(calls[c].insts) :
              LET inst == calls[c].insts[k]
              IN /\ inst.status = "error" =>
                      /\ inst.error # ""
                      /\ inst.steps_completed < inst.steps_total
                      /\ \A n \in StartedSteps(calls[c], inst.sequence_id) :
                            n <= inst.steps_completed + 1
                 /\ \A n \in StartedSteps(calls[c], inst.sequence_id) :
                       StepRaises(StepOf(inst.sequence_id, n), minimax_config)
                          => inst.status = "error"

C5_Witness ==
    \E c \in CallIds : \E k \in 1..Len(calls[c].insts) :
        /\ calls[c].pc = "done"
        /\ calls[c].insts[k].status = "error"
        /\ calls[c].insts[k].steps_completed = 1
        /\ calls[c].insts[k].steps_total = 3
        /\ StartedSteps(calls[c], calls[c].insts[k].sequence_id) = {1, 2}

\* The sequences of the registry an event of this type must run: the active
\* ones with this trigger_event, by position in the registry.
ShouldRun(type) ==
    { i \in 1..Len(active_sequences) :
         /\ active_sequences[i].active
         /\ active_sequences[i].trigger_event = type }

HasFailingStep(sequence) ==
    \E n \in 1..Len(sequence.steps) :
        StepRaises(sequence.steps[n], minimax_config)

\* C6: a step failure aborts only its own sequence.  When a trigger call
\* returns, every active sequence with the event's trigger has been run to a
\* terminal status, those without a failing step to completed with all
\* their steps done, whether or not another sequence of the event failed;
\* this holds of later calls too.
C6_FailureIsLocal ==
    \A c \in CallIds :
        calls[c].pc = "done" =>
            \A i \in ShouldRun(calls[c].event.event_type) :
                \E k \in 1..Len(calls[c].insts) :
                    LET inst == calls[c].insts[k]
                    IN /\ inst.sequence_id = active_sequences[i].sequence_id
                       /\ inst.status \in Terminal
                       /\ ~HasFailingStep(active_sequences[i]) =>
                             /\ inst.status = "completed"
                             /\ inst.steps_completed = inst.steps_total

\* A call whose first sequence failed and whose second one completed,
\* followed by a later call that ran its sequence too.
C6_Witness ==
    /\ Len(calls) = 2
    /\ calls[1].pc = "done" /\ calls[2].pc = "done"
    /\ Len(calls[1].insts) = 2
    /\ calls[1].insts[1].status = "error"
    /\ calls[1].insts[2].status = "completed"
    /\ calls[2].event.event_id[2] > calls[1].event.event_id[2]
    /\ Len(calls[2].insts) >= 1

\* C7: when a trigger_* call returns, every instance created for its event
\* is completed or error, and the call has returned a result (success), not
\* raised.  A call that has not returned yet has no result.
C7_SynchronousProcessing ==
    \A c \in CallIds :
        /\ calls[c].result.returned <=> calls[c].pc = "done"
        /\ calls[c].result.returned =>
              /\ calls[c].result.success /\ ~calls[c].result.raised
              /\ \A k \in 1..Len(calls[c].insts) :
                    calls[c].insts[k].status \in Terminal

\* A trigger call has returned after its event started an instance and a
\* step ran after a pause (the clock had moved on).
C7_Witness ==
    \E c \in CallIds :
        /\ calls[c].result.returned
        /\ calls[c].insts # << >>
        /\ clock > 0
        /\ \E i \in 1..Len(calls[c].trace) : calls[c].trace[i].at > 0

\* C8: instances are created, and steps executed, only for the sequences of
\* the registry that are active and whose trigger_event is the event's
\* type; a finished call has created one for each of them.
C8_OnlyMatchingSequences ==
    \A c \in CallIds :
        LET should == { active_sequences[i].sequence_id :
                            i \in ShouldRun(calls[c].event.event_type) }
            created == { calls[c].insts[k].sequence_id :
                            k \in 1..Len(calls[c].insts) }
            stepped == { calls[c].trace[i].sequence_id :
                            i \in 1..Len(calls[c].trace) }
        IN /\ created \subseteq should
           /\ stepped \subseteq created
           /\ calls[c].pc = "done" => created = should
           /\ Len(calls[c].insts) = Cardinality(created)
           /\ \A id \in DOMAIN instancesFile :
                 instancesFile[id].event_id = calls[c].event.event_id
                    => instancesFile[id].sequence_id \in should

\* A purchase event has run while the registry holds an inactive sequence
\* for purchase events, and a sequence for another event type.
C8_Witness ==
    \E c \in CallIds :
        /\ calls[c].pc = "done"
        /\ calls[c].event.event_type = "purchase_completed"
        /\ Len(calls[c].insts) = 2
        /\ \E i \in 1..Len(active_sequences) :
              /\ ~active_sequences[i].active
              /\ active_sequences[i].trigger_event = "purchase_completed"

\* The pause a step declares: its delay_minutes, given on the step or, as
\* the seeded sequences do, in the step's config.
DeclaredDelay(step) == Max(step.delay_minutes, step.config.delay_minutes)

\* C10: a step that declares a positive delay_minutes is followed by a wait
\* of that duration before the next step of the sequence starts.
C10_DeclaredDelayIsWaited ==
    \A c \in CallIds : \A i \in 1..(Len(calls[c].trace) - 1) :
        LET e == calls[c].trace[i]
            n == calls[c].trace[i + 1]
        IN (/\ e.ev = "end" /\ n.ev = "start"
            /\ n.sequence_id = e.sequence_id)
           => n.at >= e.at + DeclaredDelay(StepOf(e.sequence_id, e.step))
                                * SecondsPerMinute

\* C9: with the seeded sequences only, each lead_capture trigger creates
\* exactly one instance, of welcome_7_day, whose steps_total is 3; a lead
\* created through the gateway is stored with status novo.
C9_DefaultWelcome ==
    active_sequences = DefaultSequences =>
        /\ \A c \in CallIds :
              /\ calls[c].event.event_type = "lead_capture" =>
                    /\ Len(calls[c].insts) = 1
                    /\ calls[c].insts[1].sequence_id = "welcome_7_day"
                    /\ calls[c].insts[1].steps_total = 3
              /\ calls[c].request.kind = "create_lead" =>
                    \E i \in 1..Len(leads) :
                        /\ leads[i].id = calls[c].request.doc.id
                        /\ leads[i].status = "novo"
        /\ \A id \in DOMAIN instancesFile :
              /\ instancesFile[id].sequence_id = "welcome_7_day"
              /\ instancesFile[id].steps_total = 3
        /\ Cardinality(DOMAIN instancesFile) <= Len(calls)

\* Two leads were created through the gateway; both requests were answered
\* after their welcome sequence completed.
C9_Witness ==
    /\ Len(calls) = 2 /\ Len(leads) = 2
    /\ \A c \in CallIds :
          /\ calls[c].pc = "responded"
          /\ calls[c].insts[1].status = "completed"
          /\ calls[c].insts[1].steps_completed = 3
    /\ Cardinality(DOMAIN instancesFile) >= 1

\* The last n entries of a log, all of them when it has no more than n.
LastEntries(logs, n) ==
    IF Len(logs) > n THEN SubSeq(logs, Len(logs) - n + 1, Len(logs)) ELSE logs

\* The call c writes automation_log.json in this step.
WritesLog(c) == calls[c].pc = "log_write" /\ calls'[c].pc # "log_write"

\* C11: automation_log.json never holds more than LogCap entries, and every
\* logged action leaves in it the most recent entries in their order: the
\* entries it held, then the new one, less the oldest beyond LogCap.
C11_LogKeepsMostRecent ==
    [][/\ Len(logFile') <= LogCap
       /\ \A c \in CallIds : WritesLog(c) =>
             /\ Len(logFile') >= 1
             /\ LastEntries(logFile, LogCap - 1) =
                   SubSeq(logFile', 1, Len(logFile') - 1)
             /\ logFile'[Len(logFile')].event_id = calls[c].event.event_id]_vars

\* The part of C11 that holds of the code: the cap, and that each write
\* leaves the entries the action read, then its own, less the oldest.
C11_LogIsCapped ==
    [][/\ Len(logFile') <= LogCap
       /\ \A c \in CallIds : WritesLog(c) =>
             logFile' = LastEntries(Append(calls[c].lsnap,
                            logFile'[Len(logFile')]), LogCap)]_vars

\* An append to a full log has dropped the oldest entry.
C11_Witness ==
    /\ Len(logFile) = LogCap
    /\ logFile[1].timestamp > 1 - LogCap - 1
    /\ logFile[LogCap].timestamp >= 0

\* Every primary -> file pass that was started has returned success.
PassesDone ==
    \A s \in SyncIds : syncs[s].pc = "done" /\ syncs[s].forward.success

\* C12: when two primary -> file passes over the same five leads have both
\* returned, whatever the order of their steps, the file holds five lead
\* records and nothing else, one for each (email, telefone) of the store.
C12_TwoSyncsLeaveFiveRecords ==
    (Len(syncs) = 2 /\ PassesDone) =>
        /\ Len(minimaxFile) = 5
        /\ \A i \in 1..Len(minimaxFile) :
              /\ minimaxFile[i] # ExtraData
              /\ minimaxFile[i].email = leads[i].email
              /\ minimaxFile[i].telefone = leads[i].telefone

\* No lead of db.leads has this id.
NoSuchLead(id) == \A i \in 1..Len(leads) : Get(leads[i], "id", NoOid) # id

\* The update_lead request that arrives in this step, if one does.
Arrives(c) ==
    /\ c = Len(calls) + 1
    /\ c = Len(calls')
    /\ calls'[c].request.kind = "update_lead"

\* This step leaves the stores, the queue and the scheduled syncs alone.
NoSideEffect ==
    /\ leads' = leads
    /\ event_queue' = event_queue
    /\ eventSerial' = eventSerial
    /\ instancesFile' = instancesFile
    /\ logFile' = logFile
    /\ syncs' = syncs
    /\ minimaxFile' = minimaxFile

\* C13 as stated: an update of an id no lead has is answered 404 at once,
\* with no side effect.
C13_Original_AlwaysNotFound ==
    [][\A c \in 1..Len(calls') :
          (Arrives(c) /\ NoSuchLead(calls'[c].request.lead_id)) =>
              /\ calls'[c].pc = "responded"
              /\ calls'[c].request.status_code = 404
              /\ NoSideEffect]_vars

\* C13: an update of an id no lead has is answered with an error at once
\* and has no side effect: no record is created or changed, no event is
\* enqueued or processed, no sync is scheduled.  The error is 404, except
\* that the backend answers 400 to an update that sets no field.
C13_UnknownIdNoSideEffect ==
    [][\A c \in 1..Len(calls') :
          (Arrives(c) /\ NoSuchLead(calls'[c].request.lead_id)) =>
              LET request == calls'[c].request
                  empty == /\ request.update_data.status = "None"
                           /\ request.update_data.notas = "None"
              IN /\ calls'[c].pc = "responded"
                 /\ request.status_code =
                       IF request.server = "backend" /\ empty THEN 400 ELSE 404
                 /\ NoSideEffect]_vars

\* Both servers have answered 404 to an update that names a status.
C13_Witness ==
    \E c, d \in CallIds :
        /\ calls[c].request.kind = "update_lead"
        /\ calls[d].request.kind = "update_lead"
        /\ calls[c].request.server = "gateway"
        /\ calls[d].request.server = "backend"
        /\ calls[c].request.status_code = 404
        /\ calls[d].request.status_code = 404
        /\ calls[c].request.update_data.status = "qualificado"
        /\ leads = UpdateLeads

\* The call c does its update_one in this step.
UpdatesLead(c) ==
    \/ /\ c \in CallIds
       /\ calls[c].pc = "gateway_update"
       /\ calls'[c].pc # "gateway_update"
    \/ /\ Arrives(c)
       /\ calls'[c].request.server = "backend"
       /\ calls'[c].pc = "backend_updated"

\* The request of call c sets the status its lead already has, and nothing
\* else.
RepeatsStatus(c) ==
    LET request == calls'[c].request
        i == FindById(leads, request.lead_id)
    IN /\ i # 0
       /\ request.update_data = LeadUpdate(leads[i].status, "None", "None")

\* Every field of the lead but those named is as it was, and so is every
\* other lead.
SameBut(i, fields) ==
    /\ Len(leads') = Len(leads)
    /\ \A j \in 1..Len(leads) : j # i => leads'[j] = leads[j]
    /\ \A k \in (DOMAIN leads'[i] \cup DOMAIN leads[i]) \ fields :
          /\ k \in DOMAIN leads'[i]
          /\ k \in DOMAIN leads[i]
          /\ leads'[i][k] = leads[i][k]

\* The handler of call c returns its response in this step.
Responds(c) ==
    /\ c \in CallIds
    /\ calls[c].pc \in {"gateway_updated", "done", "backend_updated"}
    /\ calls'[c].pc = "responded"

RoundTripOver == syncs # << >> /\ syncs[1].pc \in {"converted", "raised"}

\* C15 as stated: the round trip of any record returns a record with the
\* email, telefone, status and notas of the record.
C15_Original_RoundTrip ==
    RoundTripOver =>
        /\ syncs[1].pc = "converted"
        /\ \A k \in {"email", "telefone", "status", "notas"} :
              /\ k \in DOMAIN leads[1]
              /\ syncs[1].mongo_lead[k] = leads[1][k]

\* C15: the round trip returns a record unless the record's timestamp is a
\* string that is no ISO date (then the way back raises); the record
\* returned has each of email, telefone, status and notas as the record had
\* it, and status novo, notas '' where the record had none.
C15_RoundTripKeepsFields ==
    RoundTripOver =>
        /\ syncs[1].pc = "raised" <=>
              Get(leads[1], "timestamp", NoneValue) = NotADate
        /\ syncs[1].pc = "converted" =>
              /\ syncs[1].mongo_lead.email = leads[1].email
              /\ syncs[1].mongo_lead.telefone = leads[1].telefone
              /\ syncs[1].mongo_lead.status = Get(leads[1], "status", "novo")
              /\ syncs[1].mongo_lead.notas = Get(leads[1], "notas", "")

\* A record with notes, a status other than the default and an ISO
\* timestamp has made the round trip.
C15_Witness ==
    /\ RoundTripOver
    /\ syncs[1].pc = "converted"
    /\ "notas" \in DOMAIN leads[1] /\ leads[1].notas = "ligar"
    /\ "status" \in DOMAIN leads[1] /\ leads[1].status = "qualificado"
    /\ syncs[1].mongo_lead.notas = "ligar"
    /\ syncs[1].mongo_lead.status = "qualificado"

\* The pass s writes the file and returns success in this step.
SavesFile(s) ==
    /\ syncs[s].pc = "forward_save"
    /\ syncs'[s].pc = "done"
    /\ syncs'[s].forward.success

\* Two files with the same records, updated_at left aside.
SameButUpdatedAt(file, other) ==
    /\ Len(file) = Len(other)
    /\ \A i \in 1..Len(file) :
          [file[i] EXCEPT !.updated_at = Iso(0)] =
          [other[i] EXCEPT !.updated_at = Iso(0)]

\* C16: a primary -> file pass over a store that has not changed since an
\* earlier pass wrote the file writes the same file again, updated_at left
\* aside: the same lead_id, timestamp and created_at for every lead.
C16_ResyncWritesSameFile ==
    [][\A s \in SyncIds :
          (SavesFile(s) /\ last_sync_timestamp # NoneValue) =>
              SameButUpdatedAt(minimaxFile', minimaxFile)]_vars

\* The file -> primary pass s is at a record in this state.
AtRecord(s) == syncs[s].pc \in {"reverse_find", "reverse_write"}

\* The errors the pass s has counted, also once it has returned.
ErrorsOf(sync) ==
    IF sync.pc = "done" THEN sync.reverse.stats.errors
    ELSE sync.sync_stats.errors

\* The pass s is past the record it was at: it is at the next one, or it
\* has returned after the last one.
NextRecord(s) ==
    \/ /\ syncs'[s].pc = "reverse_find"
       /\ syncs'[s].ri = syncs[s].ri + 1
    \/ /\ syncs'[s].pc = "done"
       /\ syncs[s].ri = Len(syncs[s].minimax_leads)
       /\ syncs'[s].reverse.returned
       /\ syncs'[s].reverse.success
       /\ syncs'[s].reverse.stats.total_leads = Len(syncs[s].minimax_leads)

\* C17: a record of a file -> primary pass whose conversion or write raises
\* adds one to errors and changes nothing in db.leads, and the pass goes on
\* with the next record; a record that does not raise is written; the pass
\* returns success after the last record.  A primary -> file pass has no
\* record that raises: it reports no errors and writes every record read.
C17_RecordErrorsAreSkipped ==
    [][\A s \in SyncIds :
          /\ (AtRecord(s) /\ ErrorsOf(syncs'[s]) # ErrorsOf(syncs[s])) =>
                /\ ErrorsOf(syncs'[s]) = ErrorsOf(syncs[s]) + 1
                /\ leads' = leads
                /\ NextRecord(s)
          /\ (AtRecord(s) /\ syncs[s].ri # syncs'[s].ri
                /\ ErrorsOf(syncs'[s]) = ErrorsOf(syncs[s])) =>
                /\ NextRecord(s)
                /\ \E i \in 1..Len(leads') :
                      \A k \in {"id", "email", "telefone"} :
                          /\ k \in DOMAIN leads'[i]
                          /\ k \in DOMAIN syncs[s].mongo_lead
                          /\ leads'[i][k] = syncs[s].mongo_lead[k]
          /\ (syncs[s].pc = "reverse_find" /\ syncs'[s] # syncs[s]
                /\ ConvertMinimaxLeadToMongoRaises(
                       syncs[s].minimax_leads[syncs[s].ri])) =>
                ErrorsOf(syncs'[s]) = ErrorsOf(syncs[s]) + 1
          /\ (syncs[s].pc = "forward_save" /\ syncs'[s].forward.success) =>
                /\ syncs'[s].forward.stats.errors = 0
                /\ Len(minimaxFile') = syncs'[s].forward.stats.total_leads]_vars

\* A pass over the file with the bad date has returned success with one
\* error and the good record inserted; another pass, in which a call to the
\* store failed, has returned success too.
C17_Witness ==
    /\ leadsJson = BadDate
    /\ Len(syncs) = 2
    /\ \A s \in SyncIds : syncs[s].pc = "done" /\ syncs[s].reverse.success
    /\ syncs[1].reverse.stats.errors = 1
    /\ syncs[1].reverse.stats.inserted = 1
    /\ syncs[2].reverse.stats.errors = 2
    /\ \E i \in 1..Len(leads) : Get(leads[i], "id", NoOid) = <<"form", 2>>

\* The pass s reads db.leads and runs its loop in this step.
ReadsLeads(s) ==
    /\ syncs[s].pc = "forward_read"
    /\ syncs'[s].pc = "forward_save"

\* The records of a converted batch counted as new against a cache: those
\* whose hash is neither in the cache nor the hash of an earlier record.
NewIn(minimax_leads, cache) ==
    { i \in 1..Len(minimax_leads) :
        /\ CalculateLeadHash(minimax_leads[i]) \notin cache
        /\ \A j \in 1..(i - 1) : CalculateLeadHash(minimax_leads[j])
                                     # CalculateLeadHash(minimax_leads[i]) }

\* The counts of the pass s are those of the batch it read.
StatsOfBatch(s) ==
    LET stats == syncs'[s].sync_stats
        batch == syncs'[s].minimax_leads
    IN /\ stats.total_leads = Len(ToList(leads))
       /\ Len(batch) = Len(ToList(leads))
       /\ stats.new_leads = Cardinality(NewIn(batch, sync_cache))
       /\ stats.updated_leads = Len(batch) - stats.new_leads
       /\ stats.new_leads + stats.updated_leads + stats.errors
              = stats.total_leads

\* Another pass has read db.leads before this step.
ReadBefore(s) ==
    \E t \in SyncIds : t # s /\ syncs[t].pc \in {"forward_save", "done"}

\* C18: total_leads is the number of leads read, a lead is new exactly when
\* its hash was not in the cache at that moment and updated otherwise, new +
\* updated + errors = total, and a pass that follows another one, db.leads
\* unchanged, counts every lead as updated and none as new.
C18_ForwardStats ==
    [][\A s \in SyncIds :
          ReadsLeads(s) =>
              /\ StatsOfBatch(s)
              /\ ReadBefore(s) =>
                    /\ syncs'[s].sync_stats.new_leads = 0
                    /\ syncs'[s].sync_stats.updated_leads
                           = syncs'[s].sync_stats.total_leads]_vars

\* C18, the counts of one pass alone.
C18_StatsAddUp ==
    [][\A s \in SyncIds : ReadsLeads(s) => StatsOfBatch(s)]_vars

\* C18, the repeated pass over a store in which every lead has a timestamp.
C18_RepeatOverTimestamped ==
    [][\A s \in SyncIds :
          (/\ ReadsLeads(s)
           /\ ReadBefore(s)
           /\ \A i \in 1..Len(leads) : "timestamp" \in DOMAIN leads[i]) =>
              syncs'[s].sync_stats.new_leads = 0]_vars

\* A second pass has counted its three leads, two of them as updated.
C18_Witness ==
    /\ Len(syncs) = 2
    /\ syncs[1].pc = "done"
    /\ syncs[2].pc = "forward_save"
    /\ syncs[2].sync_stats.total_leads = 3
    /\ syncs[2].sync_stats.updated_leads = 2

\* The watch loop takes the next change in this step.
TakesChange ==
    /\ watch.status = "idle"
    /\ changeFeed # << >>
    /\ changeFeed' = Tail(changeFeed)
    /\ watch' # watch \/ changeFeed' # changeFeed

\* The watch loop writes the file in this step, at the end of 'op'.
WatchWrites(op) ==
    /\ watch.status = "save"
    /\ watch.op = op
    /\ watch'.status = "idle"

\* 'after' is 'before' with the lead as the record of its pair: in the
\* place of the first record with the pair, or appended; the rest is as it
\* was.
Upserted(after, before, lead) ==
    LET found == { i \in 1..Len(before) :
                     /\ before[i].email = lead.email
                     /\ before[i].telefone = lead.telefone }
    IN IF found = {}
       THEN after = Append(before, lead)
       ELSE /\ Len(after) = Len(before)
            /\ \E i \in found :
                  /\ \A j \in found : i <= j
                  /\ after[i] = lead
                  /\ \A j \in 1..Len(before) : j # i => after[j] = before[j]

\* C19: watch answers an insert, update or replace of a lead by writing the
\* converted lead into the file as the record of its pair, every other
\* record unchanged.
C19_ChangeIsUpserted ==
    [][/\ (TakesChange /\ Head(changeFeed).operationType
                             \in {"insert", "update", "replace"}) =>
             /\ watch'.status = "load"
             /\ watch'.op = "upsert"
             /\ watch'.lead.original_id
                    = StrOfOid(Head(changeFeed).documentKey)
       /\ WatchWrites("upsert") =>
             Upserted(minimaxFile', minimaxFile, watch.lead)]_vars

\* C19 for the insert of a lead alone.
C19_InsertIsUpserted ==
    [][/\ (TakesChange /\ Head(changeFeed).operationType = "insert") =>
             /\ watch'.status = "load"
             /\ watch'.op = "upsert"
             /\ watch'.lead.original_id
                    = StrOfOid(Head(changeFeed).documentKey)
       /\ WatchWrites("upsert") =>
             Upserted(minimaxFile', minimaxFile, watch.lead)]_vars

\* The watch loop has written a created lead into a file that held another
\* record.
C19_Witness ==
    /\ watch.status = "idle"
    /\ Len(minimaxFile) = 2
    /\ minimaxFile[1] = StaleMinimaxLead
    /\ minimaxFile[2].sync_source = "mongodb_hybrid_nexus"
    /\ \E i \in 1..Len(leads) :
          minimaxFile[2].original_id = StrOfOid(leads[i]._id)

\* C20: watch answers the deletion of a lead by writing the file without
\* the records whose original_id is the identifier of the deleted lead, all
\* other records kept.
C20_DeletedLeadLeavesFile ==
    [][WatchWrites("remove") =>
          LET Other(lead) == lead.original_id # StrOfOid(watch.mongo_id)
          IN /\ minimaxFile' = SelectSeq(minimaxFile, Other)
             /\ \A i \in 1..Len(minimaxFile') :
                   minimaxFile'[i].original_id # StrOfOid(watch.mongo_id)]_vars

\* C20, the other records alone: the deletion of a lead leaves every record
\* of another lead in the file.
C20_OtherRecordsKept ==
    [][WatchWrites("remove") =>
          LET Other(lead) == lead.original_id # StrOfOid(watch.mongo_id)
          IN SelectSeq(minimaxFile', Other) = SelectSeq(minimaxFile, Other)]_vars

\* The handling of a change fails in this step: the change has no
\* fullDocument, or the file cannot be written.
HandlingFails ==
    \/ /\ TakesChange
       /\ Head(changeFeed).operationType \in {"insert", "update", "replace"}
       /\ "fullDocument" \notin DOMAIN Head(changeFeed)
    \/ /\ watch.status = "save"
       /\ watch'.status = "idle"
       /\ minimaxFile' # watch.leads

\* The change stream fails in this step.
StreamFails ==
    /\ watch.status = "idle"
    /\ watch'.status = "ended"

\* C21 as stated: every error during watch ends the loop.
C21_Original_AnyErrorEndsLoop ==
    [][(HandlingFails \/ StreamFails) => watch'.status = "ended"]_vars

\* C21: an error of the change stream ends the watch loop: no later change
\* is taken, the file is not written and the stream is not opened again;
\* an error in the handling of one change leaves the loop waiting for the
\* next change.
C21_StreamErrorEndsLoop ==
    [][/\ watch.status = "ended" =>
             /\ watch' = watch
             /\ changeFeed' = changeFeed
             /\ minimaxFile' = minimaxFile
       /\ StreamFails => watch' = WatchEnded
       /\ HandlingFails => watch' = WatchIdle]_vars

\* The loop has ended with changes it had not taken, and a lead created
\* since is in db.leads and not in the file.
C21_Witness ==
    /\ watch.status = "ended"
    /\ changeFeed # << >>
    /\ \E i \in 1..Len(leads) :
          \A j \in 1..Len(minimaxFile) :
              minimaxFile[j].original_id # StrOfOid(leads[i]._id)

\* The calls of trigger_status_change that have returned.
StatusChanges ==
    { c \in CallIds : /\ calls[c].event.event_type = "status_change"
                      /\ calls[c].pc = "done" }

\* The sequences a call has created instances for, in the order of creation.
SequencesOf(call) ==
    [i \in 1..Len(call.insts) |-> call.insts[i].sequence_id]

\* The active sequences of the registry triggered by status_change.
StatusChangeSequences ==
    LET OnStatus(seq) == seq.trigger_event = "status_change" /\ seq.active
        selected == SelectSeq(active_sequences, OnStatus)
    IN [i \in 1..Len(selected) |-> selected[i].sequence_id]

TraceOf(call, sequence_id) ==
    LET OfSequence(entry) == entry.sequence_id = sequence_id
    IN SelectSeq(call.trace, OfSequence)

\* The steps of a trace are those of the declaration, one after the other:
\* step 1 starts and ends, then step 2 starts, and so on.
InDeclarationOrder(trace) ==
    \A j \in 1..Len(trace) :
        /\ trace[j].step = (j + 1) \div 2
        /\ trace[j].ev = IF j % 2 = 1 THEN "start" ELSE "end"

\* C23: in one sequence execution the steps run in declaration order,
\* steps_completed is the number of steps that have finished and is at most
\* steps_total, and a completed instance has steps_completed = steps_total,
\* in memory and in sequence_instances.json.
C23_StepsCounted ==
    /\ \A c \in CallIds : \A i \in 1..Len(calls[c].insts) :
          LET inst == calls[c].insts[i]
              trace == TraceOf(calls[c], inst.sequence_id)
          IN /\ InDeclarationOrder(trace)
             /\ inst.steps_completed = Len(trace) \div 2
             /\ inst.steps_completed <= inst.steps_total
             /\ inst.status = "completed" =>
                   inst.steps_completed = inst.steps_total
    /\ \A k \in DOMAIN instancesFile :
          /\ instancesFile[k].steps_completed <= instancesFile[k].steps_total
          /\ instancesFile[k].status = "completed" =>
                instancesFile[k].steps_completed = instancesFile[k].steps_total

\* A sequence with a step of an unrecognized type has completed, all three
\* of its steps counted.
C23_Witness ==
    \E c \in CallIds : \E i \in 1..Len(calls[c].insts) :
        /\ calls[c].insts[i].sequence_id = "status_nurture"
        /\ calls[c].insts[i].status = "completed"
        /\ calls[c].insts[i].steps_completed = 3
        /\ calls[c].insts[i].instance_id \in DOMAIN instancesFile
        /\ instancesFile[calls[c].insts[i].instance_id].status = "completed"

\* The call c is between two steps: a step has finished and been counted,
\* the pause before the next one is running.
BetweenSteps(c) == calls[c].pc = "sleep"

\* C24: while a sequence runs, its record in sequence_instances.json
\* follows its progress: between the k-th step and the next one the
\* persisted steps_completed of the instance is k.
C24_PersistedProgress ==
    \A c \in CallIds :
        BetweenSteps(c) =>
            /\ CurInst(calls[c]).instance_id \in DOMAIN instancesFile
            /\ instancesFile[CurInst(calls[c]).instance_id].steps_completed
                   = CurInst(calls[c]).steps_completed

\* C24, what is persisted while the sequence runs: the record written when
\* the instance was created.
C24_PersistedAtCreation ==
    \A c \in CallIds :
        (BetweenSteps(c) /\ Len(calls) = 1) =>
            instancesFile[CurInst(calls[c]).instance_id]
                = [CurInst(calls[c]) EXCEPT !.steps_completed = 0]

\* Both triggers have returned.
BothReturned ==
    /\ Len(calls) = 2
    /\ \A c \in CallIds : calls[c].pc = "done"

\* The instance records the calls have saved and the file does not hold.
MissingInstances ==
    { inst \in UNION { { calls[c].insts[i] : i \in 1..Len(calls[c].insts) } :
                       c \in CallIds } :
        inst.instance_id \notin DOMAIN instancesFile }

\* The log entries a call of trigger_lead_capture writes when the welcome
\* sequence completes with the configuration loaded: one for each of its
\* three steps.
WelcomeLogEntries == 3

\* A write of sequence_instances.json drops a record in this step.
DropsInstance == \E k \in DOMAIN instancesFile : k \notin DOMAIN instancesFile'

\* A write of automation_log.json drops an entry in this step (the cap is
\* not reached).
DropsLogEntry ==
    /\ Len(logFile) < LogCap
    /\ \E i \in 1..Len(logFile) :
          \A j \in 1..Len(logFile') : logFile'[j] # logFile[i]

\* C25: a write of one of the two files drops a record only when it writes
\* over what another call has written since the writer read the file; two
\* interleaved triggers can so end with a record of one missing (the
\* witness).
C25_LostByInterleavingOnly ==
    [][/\ DropsInstance =>
             \E c \in CallIds : /\ calls[c].pc = "save_write"
                                /\ calls'[c].pc # "save_write"
                                /\ calls[c].isnap # instancesFile
       /\ DropsLogEntry =>
             \E c \in CallIds : /\ calls[c].pc = "log_write"
                                /\ calls'[c].pc # "log_write"
                                /\ calls[c].lsnap # logFile]_vars

\* Both triggers, two lead captures whose welcome sequences completed, have
\* returned; the instance record of one of them is not in
\* sequence_instances.json and the log holds fewer entries than were
\* written.
C25_Witness ==
    /\ BothReturned
    /\ minimax_config = "loaded"
    /\ \A c \in CallIds :
          /\ calls[c].event.event_type = "lead_capture"
          /\ Len(calls[c].insts) = 1
          /\ calls[c].insts[1].status = "completed"
    /\ MissingInstances # {}
    /\ Len(logFile) < 2 * WelcomeLogEntries

\* The instances a running coroutine holds.
HeldInstances(cs) ==
    UNION { { cs[c].insts[i].instance_id : i \in 1..Len(cs[c].insts) } :
            c \in 1..Len(cs) }

\* The instances persisted as running that no coroutine holds: those of a
\* process that has stopped.
StoppedInstances ==
    { k \in DOMAIN instancesFile :
        /\ instancesFile[k].status = "running"
        /\ k \notin HeldInstances(calls) }

\* The process stops and starts again in this step.
Restarts == calls # << >> /\ calls' = << >>

\* C26: when the process stops between two steps of a sequence, the
\* instance stays persisted as running after the restart, no coroutine
\* takes it up again, and from then on its record never changes.
C26_StoppedSequenceNotResumed ==
    [][/\ Restarts =>
             \A c \in CallIds :
                 (/\ calls[c].pc = "sleep"
                  /\ CurInst(calls[c]).instance_id \in DOMAIN instancesFile
                  /\ instancesFile[CurInst(calls[c]).instance_id].status
                         = "running") =>
                     CurInst(calls[c]).instance_id \in StoppedInstances'
       /\ \A k \in StoppedInstances :
             /\ k \in StoppedInstances'
             /\ instancesFile'[k] = instancesFile[k]]_vars

\* After a restart a later trigger has run to its end; the instance of the
\* stopped sequence is still persisted as running, with steps left.
C26_Witness ==
    /\ calls # << >>
    /\ \A c \in CallIds : calls[c].pc = "done" /\ calls[c].insts # << >>
    /\ \E k \in StoppedInstances :
          instancesFile[k].steps_completed < instancesFile[k].steps_total

\* The call s is inside its primary -> file pass, its file -> primary pass.
InForward(s) == syncs[s].pc \in {"forward_read", "forward_save", "forward_write"}

InReverse(s) ==
    syncs[s].pc \in {"reverse_open", "reverse_find", "reverse_write"}

\* C27: bidirectional_sync runs the file -> primary pass after the primary
\* -> file pass has returned, whatever that pass returned, and returns
\* success True whatever the two passes returned, their results nested in
\* its own.
C27_BothPassesAlwaysRun ==
    \A s \in SyncIds :
        syncs[s].kind = "bidirectional" =>
            /\ InForward(s) =>
                  ~syncs[s].forward.returned /\ ~syncs[s].reverse.returned
            /\ InReverse(s) =>
                  syncs[s].forward.returned /\ ~syncs[s].reverse.returned
            /\ syncs[s].pc = "done" =>
                  /\ syncs[s].forward.returned
                  /\ syncs[s].reverse.returned
                  /\ syncs[s].result.returned
                  /\ syncs[s].result.success

\* A bidirectional sync has returned success; both of its passes had
\* failed.
C27_Witness ==
    \E s \in SyncIds :
        /\ syncs[s].kind = "bidirectional"
        /\ syncs[s].pc = "done"
        /\ syncs[s].result.success
        /\ ~syncs[s].forward.success
        /\ ~syncs[s].reverse.success

RECURSIVE UpsertAll(_, _, _)
\* What a file -> primary pass over 'records' makes of the documents 'docs'
\* when nothing else writes to them: a record that converts is set on the
\* first document with its pair, or inserted with the next _id.
UpsertAll(docs, records, serial) ==
    IF records = << >> THEN docs
    ELSE IF ConvertMinimaxLeadToMongoRaises(Head(records))
         THEN UpsertAll(docs, Tail(records), serial)
         ELSE LET mongo_lead == ConvertMinimaxLeadToMongo(Head(records), Uuid(0))
                  existing == FindOne(docs, Head(records).email,
                                      Head(records).telefone)
              IN IF existing # NoOid
                 THEN UpsertAll([i \in 1..Len(docs) |->
                                    IF docs[i]._id = existing
                                    THEN SetFields(docs[i], mongo_lead)
                                    ELSE docs[i]],
                                Tail(records), serial)
                 ELSE UpsertAll(Append(docs, WithId(mongo_lead, Oid(serial + 1))),
                                Tail(records), serial + 1)

\* One bidirectional_sync has run alone and has returned.
RanAlone ==
    /\ Len(syncs) = 1
    /\ syncs[1].kind = "bidirectional"
    /\ syncs[1].pc = "done"

\* C28: the file -> primary pass of bidirectional_sync reads leads.json and
\* not leads_minimax.json, the file its first pass wrote: what it leaves in
\* db.leads is decided by db.leads and leads.json alone, whatever
\* leads_minimax.json holds.
C28_SecondPassReadsOtherFile ==
    RanAlone =>
        \E before \in {<< >>, <<ImportedLeadDoc>>} :
            leads = IF syncs[1].reverse.success /\ leadsJson.exists
                    THEN UpsertAll(before, leadsJson.leads, Len(before))
                    ELSE before

\* The first pass has written the imported lead into leads_minimax.json
\* and the second pass has left that lead in db.leads as it was, next to the
\* two leads of leads.json.
C28_Witness ==
    /\ RanAlone
    /\ Len(minimaxFile) = 1
    /\ minimaxFile[1].email = ImportedLeadDoc.email
    /\ Len(leads) = 3
    /\ leads[1] = ImportedLeadDoc

\* The save of the pass s fails in this step.
SaveFails(s) ==
    /\ syncs[s].pc = "forward_save"
    /\ syncs'[s].forward.returned
    /\ ~syncs'[s].forward.success

\* No pass has written leads_minimax.json: every pass that got as far as
\* the save has failed in it.
NothingWritten ==
    \A t \in SyncIds : syncs[t].pc = "done" => ~syncs[t].forward.success

\* What a failed save leaves of the pass: no timestamp, the hashes of its
\* leads in the cache.
FailedSaveKeepsCache(s) ==
    /\ last_sync_timestamp' = last_sync_timestamp
    /\ Hashes(syncs[s].minimax_leads) \subseteq sync_cache'

\* A pass that reads after another one has read counts every lead as
\* updated, also when nothing was ever written.
CountsAsUpdated(t) ==
    (ReadsLeads(t) /\ ReadBefore(t) /\ NothingWritten) =>
        /\ syncs'[t].sync_stats.new_leads = 0
        /\ syncs'[t].sync_stats.updated_leads = Len(leads)

\* C29: a primary -> file pass whose write of the file fails returns
\* success False and leaves last_sync_timestamp and the file unchanged,
\* while the cache holds the hashes of its leads, so that the next pass
\* counts those leads as updated.
C29_FailedSaveLeavesFile ==
    [][\A s \in SyncIds :
          /\ SaveFails(s) =>
                /\ FailedSaveKeepsCache(s)
                /\ minimaxFile' = minimaxFile
          /\ CountsAsUpdated(s)]_vars

\* C29 without the file: the timestamp, the cache and the counts of the
\* next pass.
C29_FailedSavePoisonsCache ==
    [][\A s \in SyncIds :
          /\ SaveFails(s) => FailedSaveKeepsCache(s)
          /\ CountsAsUpdated(s)]_vars

\* The first pass has failed in its save and the second has counted the
\* leads, never written, as updated.
C29_Witness ==
    /\ Len(syncs) = 2
    /\ syncs[1].pc = "done"
    /\ ~syncs[1].forward.success
    /\ syncs[2].pc = "forward_save"
    /\ syncs[2].sync_stats.updated_leads = 3
    /\ syncs[2].sync_stats.new_leads = 0

\* C30: the event queue is only appended to: every trigger call puts one
\* event and nothing takes events off, so the event_queue_size that
\* get_automation_status reports is the number of trigger calls made and
\* never decreases, also when every event has been processed.
C30_QueueOnlyGrows ==
    [][/\ Len(event_queue') >= Len(event_queue)
       /\ SubSeq(event_queue', 1, Len(event_queue)) = event_queue
       /\ Len(calls') = Len(calls) + 1 =>
             /\ Len(event_queue') = Len(event_queue) + 1
             /\ event_queue'[Len(event_queue')] = calls'[Len(calls')].event
       /\ GetAutomationStatus'.event_queue_size = Len(calls')]_vars

\* Two trigger calls have run to their end, sequences executed, and the
\* reported queue size is two.
C30_Witness ==
    /\ Len(calls) = 2
    /\ \A c \in CallIds : calls[c].pc = "done" /\ calls[c].insts # << >>
    /\ GetAutomationStatus.event_queue_size = 2

====
